---- MODULE Spec2Model ----
(***************************************************************************)
(* Schema dependency resolver of the modernization tool                    *)
(* (src/app/shared/get_dependencies.py), read against the two JSON caches  *)
(* written by the discovery pass (src/app/shared/discover_dependencies.py).*)
(*                                                                         *)
(* Text is modelled as a sequence of atoms.  An atom is either one         *)
(* punctuation or whitespace character, or a run of letters/digits that is *)
(* never split by the regular expressions of the source (a keyword such as *)
(* "FROM", or a piece of an identifier such as "Orders").  Two adjacent    *)
(* letter atoms form one word of the text: <<"P", "REFERENCES">> is the    *)
(* word "PREFERENCES".  Python's None is the one-atom text NoneVal.        *)
(***************************************************************************)
EXTENDS Integers, Sequences, FiniteSets, TLC

VARIABLES
    procDeps,      \* contents of output/data/procedure_dependencies.json
    scripts,       \* contents of output/data/object_create_scripts.json
    catalog,       \* sys.columns of the live database, per <<schema, table>>
    connString,    \* TRUE iff CONNECTION_STRING is set in the environment
    queryOk,       \* FALSE iff cursor.execute of get_table_info raises
    pc,            \* "idle" | "running" | "done" : the top-level call
    stack,         \* activation records of get_dependencies, innermost last
    visited,       \* processed_objects, shared by all levels of one call
    result,        \* list returned by the top-level call
    entered,       \* names whose body ran, in the order the bodies started
    openConns,     \* number of pyodbc connections open
    steps,         \* number of loop iterations, calls and returns executed
    script,        \* argument of check_enforced_dependencies
    verdict,       \* its returned value, "none" before the call
    cacheFiles,    \* names of the cache files that exist under output/data
    secondArg,     \* second argument of the top-level call, None if omitted
    error,         \* exception that ended the top-level call, "none" if none
    written,       \* output/analysis/<routine>/<routine>_dependency_tree.json
    database,      \* what the discovery pass meets: objects, query outcomes
    procedure_dependencies,  \* module-level list of discover_dependencies.py
    object_create_scripts,   \* module-level list of discover_dependencies.py
    pass,          \* position of the discovery pass
    earlier,       \* the top-level calls that returned before the current one
    passes,        \* number of discovery passes started before the current one
    fileVersion,   \* for each cache file, the pass that wrote its content
    loaded,        \* the files read by the levels of the current resolution
    overlap,       \* TRUE iff a pass was running during the current resolution
    db_connection, \* module-level db_connection of run_sql_tests.py
    db_cursor,     \* module-level db_cursor of run_sql_tests.py
    retry_count,   \* retry_count of get_db_connection
    handed,        \* what get_db_connection returned, <<>> before it returns
    results_dir,   \* the files of sql_tests/<procedure>/results
    all_results    \* the summary of run_all_tests_for_procedure

vars == <<procDeps, scripts, catalog, connString, queryOk, pc, stack, visited, result,
          entered, openConns, steps, script, verdict, cacheFiles, secondArg, error, written,
          database, procedure_dependencies, object_create_scripts, pass, earlier,
          passes, fileVersion, loaded, overlap, db_connection, db_cursor, retry_count,
          handed, results_dir, all_results>>

\* the discovery pass and its module-level lists
discovery == <<database, procedure_dependencies, object_create_scripts, pass>>

\* what one resolution and one discovery pass leave alone
\* the cache files as a resolution racing a discovery pass sees them
racing == <<fileVersion, loaded, overlap>>

\* the test runner, src/app/shared/run_sql_tests.py
runner == <<db_connection, db_cursor, retry_count, handed, results_dir, all_results>>

elsewhere == <<earlier, passes, racing, runner>>

\* what a resolution that runs to its end neither reads again nor writes
outside == <<cacheFiles, secondArg, error, written, discovery, elsewhere>>

-----------------------------------------------------------------------------
(* Text                                                                    *)

NoneVal == <<"<None>">>

WS == {" ", "\n", "\r"}

Punct == {"[", "]", "\"", "'", "<backquote>", ".", "(", ")", ",", ";", "#", "@", "*", "="}

\* \w : a letter, digit or underscore
IsWord(a) == a \notin WS \cup Punct

\* re.IGNORECASE on the letter runs the patterns name
Upper(a) ==
    CASE a = "from" -> "FROM"
      [] a = "join" -> "JOIN"
      [] a = "references" -> "REFERENCES"
      [] a = "foreign" -> "FOREIGN"
      [] a = "key" -> "KEY"
      [] OTHER -> a

RECURSIVE Concat(_)
Concat(ss) == IF ss = <<>> THEN <<>> ELSE Head(ss) \o Concat(Tail(ss))

Contains(s, a) == \E i \in 1..Len(s) : s[i] = a

\* index of the first / last occurrence of atom a in s, 0 when absent
FirstIndex(s, a) ==
    IF Contains(s, a) THEN CHOOSE i \in 1..Len(s) :
            s[i] = a /\ \A j \in 1..(i - 1) : s[j] # a
    ELSE 0

LastIndex(s, a) ==
    IF Contains(s, a) THEN CHOOSE i \in 1..Len(s) :
            s[i] = a /\ \A j \in (i + 1)..Len(s) : s[j] # a
    ELSE 0

\* str.strip(chars)
StripChars == {"[", "]", "\"", "'", "<backquote>"}

RECURSIVE LStrip(_)
LStrip(s) == IF s # <<>> /\ Head(s) \in StripChars THEN LStrip(Tail(s)) ELSE s

RECURSIVE RStrip(_)
RStrip(s) ==
    IF s # <<>> /\ s[Len(s)] \in StripChars
    THEN RStrip(SubSeq(s, 1, Len(s) - 1)) ELSE s

Strip(s) == RStrip(LStrip(s))

\* name.split(".", 1) if "." in name else [None, name]
SchemaPart(s) ==
    IF Contains(s, ".") THEN SubSeq(s, 1, FirstIndex(s, ".") - 1) ELSE NoneVal

TablePart(s) ==
    IF Contains(s, ".") THEN SubSeq(s, FirstIndex(s, ".") + 1, Len(s)) ELSE s

\* name.split(".")[-1]
Trailing(s) == SubSeq(s, LastIndex(s, ".") + 1, Len(s))

\* f"{schema_name}.{table_name}" if schema_name else table_name
FullName(schema, table) ==
    IF schema # NoneVal /\ schema # <<>> THEN schema \o <<".">> \o table ELSE table


-----------------------------------------------------------------------------
(* Regular expressions of the source, over atoms                           *)

NotSpace(a) == a \notin WS

\* [^\s(),;] negated: the atoms that end a captured reference
RefStop(a) == a \in WS \cup {"(", ")", ",", ";"}

NotNewline(a) == a # "\n"
IsSpace(a) == a \in WS

\* the character classes of the patterns, by name
InClass(class, a) ==
    CASE class = "\\s" -> IsSpace(a)
      [] class = "\\S" -> NotSpace(a)
      [] class = "\\w" -> IsWord(a)
      [] class = "\\W" -> ~IsWord(a)
      [] class = "." -> NotNewline(a)
      [] class = "[\\s(),;]" -> RefStop(a)

\* least index j >= k with text[j] in the class stop, Len(text) + 1 when
\* there is none
RunEnd(text, k, stop) ==
    IF \E j \in k..Len(text) : InClass(stop, text[j])
    THEN CHOOSE j \in k..Len(text) :
            InClass(stop, text[j]) /\ \A m \in k..(j - 1) : ~InClass(stop, text[m])
    ELSE Len(text) + 1

\* (?:FROM|JOIN|INTO|UPDATE|INSERT INTO) at index i: the index after the
\* keyword, 0 when no alternative matches there
KeywordEnd(text, i) ==
    IF Upper(text[i]) \in {"FROM", "JOIN", "INTO", "UPDATE"} THEN i + 1
    ELSE IF /\ Upper(text[i]) = "INSERT"
            /\ i + 2 <= Len(text)
            /\ text[i + 1] = " "
            /\ Upper(text[i + 2]) = "INTO" THEN i + 3
    ELSE 0

\* re.findall(r"(?:FROM|JOIN|INTO|UPDATE|INSERT INTO)\s+([^\s(),;]+)", text,
\*            re.IGNORECASE), scanning from index i: the captured groups of the
\* non-overlapping matches, left to right
RECURSIVE FindRefs(_, _)
FindRefs(text, i) ==
    IF i > Len(text) THEN <<>>
    ELSE LET kw == KeywordEnd(text, i)
             ws == RunEnd(text, kw, "\\S")
             cap == RunEnd(text, ws, "[\\s(),;]")
         IN IF kw # 0 /\ ws > kw /\ cap > ws
            THEN <<SubSeq(text, ws, cap - 1)>> \o FindRefs(text, cap)
            ELSE FindRefs(text, i + 1)

potential_refs(text) == FindRefs(text, 1)

\* Pattern elements: a literal letter run (matched ignoring case), \s+, \w+
\* and .* (which does not cross a newline)
Lit(a) == [k |-> "lit", a |-> a]
Spaces == [k |-> "ws+", a |-> ""]
WordRun == [k |-> "w+", a |-> ""]
DotStar == [k |-> "any*", a |-> ""]

\* the indices after a run of at least lo atoms of the class, from index i
RunsFrom(text, i, lo, class) ==
    {j \in (i + lo)..(Len(text) + 1) : \A m \in i..(j - 1) : InClass(class, text[m])}

\* the indices at which a match of pat starting at index i can end
RECURSIVE MatchEnds(_, _, _)
MatchEnds(pat, text, i) ==
    IF pat = <<>> THEN {i}
    ELSE LET e == Head(pat)
             rest == Tail(pat)
         IN CASE e.k = "lit" ->
                   IF i <= Len(text) /\ Upper(text[i]) = e.a
                   THEN MatchEnds(rest, text, i + 1) ELSE {}
              [] e.k = "ws+" ->
                   UNION {MatchEnds(rest, text, j) : j \in RunsFrom(text, i, 1, "\\s")}
              [] e.k = "w+" ->
                   UNION {MatchEnds(rest, text, j) : j \in RunsFrom(text, i, 1, "\\w")}
              [] e.k = "any*" ->
                   UNION {MatchEnds(rest, text, j) : j \in RunsFrom(text, i, 0, ".")}

\* re.search(pattern, script, re.IGNORECASE)
Search(pat, text) == \E i \in 1..(Len(text) + 1) : MatchEnds(pat, text, i) # {}

\* r"FOREIGN\s+KEY", r"REFERENCES\s+\w+(\.\w+)?(\s*\(\w+\))?" (its two
\* optional groups never decide a search), r"CONSTRAINT\s+\w+\s+FOREIGN\s+KEY"
foreign_key_patterns ==
    << <<Lit("FOREIGN"), Spaces, Lit("KEY")>>,
       <<Lit("REFERENCES"), Spaces, WordRun>>,
       <<Lit("CONSTRAINT"), Spaces, WordRun, Spaces, Lit("FOREIGN"), Spaces, Lit("KEY")>> >>

alter_table_patterns ==
    << <<Lit("ALTER"), Spaces, Lit("TABLE"), DotStar, Lit("ADD"), Spaces, DotStar,
         Lit("FOREIGN"), Spaces, Lit("KEY")>>,
       <<Lit("ALTER"), Spaces, Lit("TABLE"), DotStar, Lit("ADD"), Spaces,
         Lit("CONSTRAINT"), DotStar, Lit("FOREIGN"), Spaces, Lit("KEY")>>,
       <<Lit("ALTER"), Spaces, Lit("TABLE"), DotStar, Lit("ADD"), Spaces, DotStar,
         Lit("REFERENCES")>>,
       <<Lit("WITH"), Spaces, Lit("CHECK"), Spaces, Lit("ADD"), Spaces,
         Lit("CONSTRAINT"), DotStar, Lit("FOREIGN"), Spaces, Lit("KEY")>> >>

NoScript(s) == s = NoneVal \/ s = <<>>

check_enforced_dependencies(s) ==
    IF NoScript(s) THEN FALSE
    ELSE LET all_patterns == foreign_key_patterns \o alter_table_patterns
         IN \E p \in 1..Len(all_patterns) : Search(all_patterns[p], s)

-----------------------------------------------------------------------------
(* Auto-populated column detector                                          *)

NullStr == "<null>"

\* bound on the depth of the call stack
MaxDepth == 6

\* a row of sys.columns joined with sys.types, sys.computed_columns and
\* sys.default_constraints
Column(n, ident, comp, dflt, ty, guid, def) ==
    [name |-> n, is_identity |-> ident, is_computed |-> comp, has_default |-> dflt,
     type_name |-> ty, is_rowguid |-> guid, definition |-> def]

\* the WHERE clause without c.is_computed = 1
IsFlaggedNotComputed(c) ==
    \/ c.is_identity
    \/ c.has_default
    \/ c.type_name \in {"timestamp", "rowversion"}
    \/ c.is_rowguid

\* WHERE ... AND (c.is_identity = 1 OR c.is_computed = 1 OR
\*   c.default_object_id != 0 OR tp.name IN ('timestamp', 'rowversion') OR
\*   COLUMNPROPERTY(c.object_id, c.name, 'IsRowGuidCol') = 1)
IsFlagged(c) ==
    \/ c.is_identity
    \/ c.is_computed
    \/ c.has_default
    \/ c.type_name \in {"timestamp", "rowversion"}
    \/ c.is_rowguid

\* CASE ... END AS population_type; t is the alias of sys.tables, so the
\* fourth branch compares the name of the table
PopulationType(c, table_name) ==
    CASE c.is_identity -> "IDENTITY"
      [] c.is_computed -> "COMPUTED"
      [] c.has_default -> "DEFAULT"
      [] table_name \in {<<"timestamp">>, <<"rowversion">>} -> "ROWVERSION"
      [] OTHER -> NullStr

\* CASE ... END AS definition
RowDefinition(c) ==
    CASE c.is_computed -> c.definition
      [] c.has_default -> c.definition
      [] OTHER -> NullStr

ColInfo(c, table_name) ==
    LET col_info == [name |-> c.name, population_type |-> PopulationType(c, table_name)]
        d == RowDefinition(c)
    IN IF d # NullStr /\ d # "" THEN ("definition" :> d) @@ col_info ELSE col_info

RECURSIVE SelectRows(_, _)
SelectRows(cols, table_name) ==
    IF cols = <<>> THEN <<>>
    ELSE IF IsFlagged(Head(cols))
         THEN <<ColInfo(Head(cols), table_name)>> \o SelectRows(Tail(cols), table_name)
         ELSE SelectRows(Tail(cols), table_name)

\* get_table_info(cursor, schema_name, table_name) against the catalog cat;
\* when cursor.execute raises (ok is FALSE) the function catches it
get_table_info(cat, ok, schema_name, table_name) ==
    LET schema == IF schema_name # NoneVal /\ schema_name # <<>>
                  THEN schema_name ELSE <<"dbo">>
        key == <<schema, table_name>>
    IN IF ok /\ key \in DOMAIN cat THEN SelectRows(cat[key], table_name)
       ELSE <<>>

-----------------------------------------------------------------------------
(* Recursive dependency resolver: get_dependencies                         *)

\* create_scripts_lookup = {obj["name"]: obj for obj in all_object_scripts}
InLookup(n) == \E i \in 1..Len(scripts) : scripts[i].name = n

Lookup(n) ==
    scripts[CHOOSE i \in 1..Len(scripts) :
                scripts[i].name = n /\ \A j \in (i + 1)..Len(scripts) : scripts[j].name # n]

\* the dependencies of the first entry of procedure_dependencies.json
\* whose name is n, [] when there is none
FormalDependencies(n) ==
    IF \E i \in 1..Len(procDeps) : procDeps[i].name = n
    THEN procDeps[CHOOSE i \in 1..Len(procDeps) :
                    procDeps[i].name = n /\ \A j \in 1..(i - 1) : procDeps[j].name # n].dependencies
    ELSE <<>>

\* dep.get("type", "UNKNOWN")
TypeOf(dep) == IF "type" \in DOMAIN dep THEN dep.type ELSE "UNKNOWN"

With(rec, field, val) == (field :> val) @@ rec

\* NewDependency with the cached column list copied into the record
NewDependencyWithColumns(table_name, schema_name, type) ==
    [name |-> table_name, schemaName |-> schema_name, type |-> type,
     has_enforced_dependencies |-> FALSE, auto_populated_columns |-> <<>>,
     columns |-> <<>>]

\* lines 54-60 and 113-119
NewDependency(table_name, schema_name, type) ==
    [name |-> table_name, schemaName |-> schema_name, type |-> type,
     has_enforced_dependencies |-> FALSE, auto_populated_columns |-> <<>>]

\* lines 62-70 and 121-130: attach the create script and the flag
WithScript(rec, full_name) ==
    LET create_script == Lookup(full_name).definition
    IN With(With(rec, "create_script", create_script),
            "has_enforced_dependencies", check_enforced_dependencies(create_script))

\* FormalRecord with the table queried whether or not its script is cached
FormalRecordUnguarded(dep) ==
    LET schema_name == SchemaPart(dep.name)
        table_name == TablePart(dep.name)
        rec == NewDependency(table_name, schema_name, TypeOf(dep))
        enriched == IF TypeOf(dep) = "TABLE" /\ connString
                    THEN With(rec, "auto_populated_columns",
                              get_table_info(catalog, queryOk, schema_name, table_name))
                    ELSE rec
    IN IF ~InLookup(dep.name) THEN enriched ELSE WithScript(enriched, dep.name)

\* lines 54-75: the record of a formal dependency before any recursion
FormalRecord(dep) ==
    LET schema_name == SchemaPart(dep.name)
        table_name == TablePart(dep.name)
        rec == NewDependency(table_name, schema_name, TypeOf(dep))
    IN IF ~InLookup(dep.name) THEN rec
       ELSE IF TypeOf(dep) = "TABLE" /\ connString
            THEN With(WithScript(rec, dep.name), "auto_populated_columns",
                      get_table_info(catalog, queryOk, schema_name, table_name))
            ELSE WithScript(rec, dep.name)

\* line 78, nested under the test of line 63
FormalRecurses(dep) == InLookup(dep.name) /\ TypeOf(dep) = "VIEW"

\* line 102: any(dep["name"] == clean_ref.split(".")[-1] for dep in dependencies)
AlreadyListed(dependencies, clean_ref) ==
    \E i \in 1..Len(dependencies) : dependencies[i].name = Trailing(clean_ref)

RefFullName(clean_ref) == FullName(SchemaPart(clean_ref), TablePart(clean_ref))

\* ReferencedRecord without line 134: the type stays REFERENCED
ReferencedRecordUntyped(clean_ref) ==
    LET schema_name == SchemaPart(clean_ref)
        table_name == TablePart(clean_ref)
        full_name == RefFullName(clean_ref)
        rec == NewDependency(table_name, schema_name, "REFERENCED")
    IN IF ~InLookup(full_name) THEN rec ELSE WithScript(rec, full_name)

\* lines 105-140: the record of a textual reference before any recursion
ReferencedRecord(clean_ref) ==
    LET schema_name == SchemaPart(clean_ref)
        table_name == TablePart(clean_ref)
        full_name == RefFullName(clean_ref)
        rec == NewDependency(table_name, schema_name, "REFERENCED")
    IN IF ~InLookup(full_name) THEN rec
       ELSE LET obj_type == Lookup(full_name).type
                typed == With(WithScript(rec, full_name), "type", obj_type)
            IN IF obj_type = "TABLE" /\ (table_name = <<>> \/ Head(table_name) # "#")
                  /\ connString
               THEN With(typed, "auto_populated_columns",
                         get_table_info(catalog, queryOk, schema_name, table_name))
               ELSE typed

\* line 142
ReferencedRecurses(clean_ref) ==
    InLookup(RefFullName(clean_ref)) /\ Lookup(RefFullName(clean_ref)).type = "VIEW"

\* lines 86-96
MainScriptRefs(procedure_name) ==
    IF InLookup(procedure_name) /\ ~NoScript(Lookup(procedure_name).definition)
    THEN potential_refs(Lookup(procedure_name).definition)
    ELSE <<>>

\* lines 19 and 23: the two files every call opens
CacheFiles == {"procedure_dependencies.json", "object_create_scripts.json"}

\* the dependency tree file: its directory exists or not, the file exists or
\* not, and its content
TreeFile(dir, exists, content) == [dir |-> dir, exists |-> exists, content |-> content]

\* position of the discovery pass: the statement it is at, the section of
\* collect_object_create_scripts, and the objects of the section still to do
Position(at, section, todo) == [at |-> at, section |-> section, todo |-> todo]

\* no discovery pass is running
DiscoveryIdle ==
    /\ database = <<>>
    /\ procedure_dependencies = <<>>
    /\ object_create_scripts = <<>>
    /\ pass = Position("off", 0, <<>>)

\* the returned top-level calls: their number, and the list and the entered
\* names of the first of them
Earlier(calls, list, names) == [calls |-> calls, result |-> list, entered |-> names]

\* lines 15-16 of run_sql_tests.py: no connection, no cursor
NoConnection == [id |-> 0, state |-> "None"]

\* the test runner has not started
RunnerIdle ==
    /\ db_connection = NoConnection
    /\ db_cursor = NoConnection
    /\ retry_count = 0
    /\ handed = <<>>
    /\ results_dir = <<>>
    /\ all_results = <<>>

\* no top-level call has returned, no pass ran before, both files are of
\* the one pass, and no resolution has read them
ElsewhereIdle ==
    /\ earlier = Earlier(0, <<>>, <<>>)
    /\ passes = 0
    /\ fileVersion = [f \in {"procedure_dependencies.json", "object_create_scripts.json"} |-> 0]
    /\ loaded = <<>>
    /\ overlap = FALSE
    /\ RunnerIdle

\* both cache files in place, no second argument, nothing raised, nothing
\* persisted
OutsideInit ==
    /\ ElsewhereIdle
    /\ cacheFiles = CacheFiles
    /\ secondArg = NoneVal
    /\ error = "none"
    /\ written = TreeFile(TRUE, FALSE, <<>>)
    /\ DiscoveryIdle

Frame(procedure_name) ==
    [name |-> procedure_name, phase |-> "formal",
     formal |-> FormalDependencies(procedure_name), refs |-> <<>>,
     dependencies |-> <<>>, pending |-> <<>>]

Top == stack[Len(stack)]

SetTop(f) == [stack EXCEPT ![Len(stack)] = f]

\* lines 36-40: one connection per level that passes the visited check
Connect == openConns + (IF connString THEN 1 ELSE 0)

\* lines 148-150
Disconnect == openConns - (IF connString THEN 1 ELSE 0)

\* Enter without line 16: the name is never added to processed_objects
EnterWithoutAdd(procedure_name, callerStack) ==
    /\ Len(callerStack) < MaxDepth
    /\ CacheFiles \subseteq cacheFiles
    /\ visited' = visited
    /\ entered' = Append(entered, procedure_name)
    /\ openConns' = openConns + (IF connString THEN 1 ELSE 0)
    /\ stack' = Append(callerStack,
                       [name |-> procedure_name, phase |-> "formal",
                        formal |-> FormalDependencies(procedure_name), refs |-> <<>>,
                        dependencies |-> <<>>, pending |-> <<>>])

\* lines 8-43 of a call that passes the visited check and finds both cache
\* files; the interpreter allows MaxDepth nested calls
Enter(procedure_name, callerStack) ==
    /\ Len(callerStack) < MaxDepth
    /\ CacheFiles \subseteq cacheFiles
    /\ visited' = visited \cup {procedure_name}
    /\ entered' = Append(entered, procedure_name)
    /\ openConns' = Connect
    /\ stack' = Append(callerStack, Frame(procedure_name))

-----------------------------------------------------------------------------
(* Caches and catalogs the resolver is run against                         *)

\* bound on the number of formal dependencies plus textual references of
\* the resolved routine
MaxItems == 2

ProcName == <<"dbo", ".", "P">>
Orders == <<"dbo", ".", "Orders">>
SalesOrders == <<"sales", ".", "Orders">>
ViewA == <<"dbo", ".", "vA">>
ViewB == <<"dbo", ".", "vB">>
TempStaging == <<"#", "TempStaging">>

Bracketed(n) == <<"[", n[1], "]", ".", "[", n[3], "]">>

Clause(keyword, ref) == <<" ">> \o keyword \o <<" ">> \o ref

SelectFrom(clauses) == <<"SELECT", " ", "*">> \o Concat(clauses)

\* sys.columns of the two tables, in two databases
Catalog1 ==
    (<<<<"dbo">>, <<"Orders">>>> :>
        << Column(<<"OrderId">>, TRUE, FALSE, FALSE, "int", FALSE, NullStr),
           Column(<<"TotalWithTax">>, FALSE, TRUE, FALSE, "decimal", FALSE, "([Total]*(1.2))"),
           Column(<<"Status">>, FALSE, FALSE, FALSE, "int", FALSE, NullStr) >>)
    @@ (<<<<"sales">>, <<"Orders">>>> :>
        << Column(<<"Id">>, TRUE, FALSE, FALSE, "int", FALSE, NullStr) >>)

Catalog2 ==
    (<<<<"dbo">>, <<"Orders">>>> :>
        << Column(<<"RowVer">>, FALSE, FALSE, FALSE, "rowversion", FALSE, NullStr),
           Column(<<"CreatedAt">>, FALSE, FALSE, TRUE, "datetime", FALSE, "(getdate())"),
           Column(<<"OrderId">>, TRUE, FALSE, FALSE, "int", FALSE, NullStr) >>)
    @@ (<<<<"sales">>, <<"Orders">>>> :>
        << Column(<<"RowGuid">>, FALSE, FALSE, FALSE, "uniqueidentifier", TRUE, NullStr),
           Column(<<"Note">>, FALSE, FALSE, FALSE, "nvarchar", FALSE, NullStr) >>)

Catalogs == {Catalog1, Catalog2}

\* column_metadata of discover_dependencies, lines 497-507 and 536-546
ColumnMetadata(cat, n) ==
    LET key == <<SchemaPart(n), TablePart(n)>>
    IN IF key \in DOMAIN cat
       THEN [i \in 1..Len(cat[key]) |->
                [name |-> cat[key][i].name, data_type |-> cat[key][i].type_name]]
       ELSE <<>>

\* entries of a dependency_list, lines 509-515 and 548-554
TableDep(cat, n) == [name |-> n, type |-> "TABLE", columns |-> ColumnMetadata(cat, n)]
ViewDep(cat, n) == [name |-> n, type |-> "VIEW", columns |-> ColumnMetadata(cat, n)]

FormalChoices(cat) ==
    {TableDep(cat, Orders), TableDep(cat, SalesOrders), ViewDep(cat, ViewA), ViewDep(cat, ViewB)}

\* clauses of the routine's text
RefChoices ==
    { Clause(<<"FROM">>, Orders),
      Clause(<<"JOIN">>, Bracketed(Orders)),
      Clause(<<"INTO">>, TempStaging),
      Clause(<<"from">>, SalesOrders),
      Clause(<<"INSERT", " ", "INTO">>, ViewA),
      Clause(<<"UPDATE">>, <<"Orders">>) }

ViewATexts ==
    { SelectFrom(<<Clause(<<"FROM">>, Orders)>>),
      SelectFrom(<<Clause(<<"FROM">>, Bracketed(Orders))>>),
      SelectFrom(<<Clause(<<"FROM">>, ViewB)>>),
      SelectFrom(<<Clause(<<"FROM">>, Orders), Clause(<<"JOIN">>, ViewA)>>) }

ViewBTexts ==
    { SelectFrom(<<Clause(<<"FROM">>, ViewA)>>),
      SelectFrom(<<Clause(<<"FROM">>, <<"Orders">>), Clause(<<"JOIN">>, ViewA)>>) }

OrdersText ==
    <<"CREATE", " ", "TABLE", " ">> \o Bracketed(Orders)
        \o <<" ", "(", "[", "OrderId", "]", " ", "[", "int", "]", ")">>

SalesOrdersText ==
    <<"CREATE", " ", "TABLE", " ">> \o Bracketed(SalesOrders)
        \o <<" ", "(", "[", "Id", "]", " ", "[", "int", "]", ")", "\n",
             "ALTER", " ", "TABLE", " ">> \o Bracketed(SalesOrders)
        \o <<" ", "ADD", " ", "CONSTRAINT", " ", "[", "FK_Orders", "]", " ",
             "FOREIGN", " ", "KEY", " ", "(", "[", "Id", "]", ")", " ",
             "REFERENCES", " ">> \o Bracketed(Orders)

SeqsUpTo(S, n) == UNION {[1..k -> S] : k \in 0..n}

Entry(n, type, text) == [name |-> n, type |-> type, definition |-> text]

\* object_create_scripts.json in the order collect_object_create_scripts
\* appends: tables, views, procedures; the objects in missing have no entry
ScriptsCache(missing, textA, textB, clauses) ==
    SelectSeq(<< Entry(Orders, "TABLE", OrdersText),
                 Entry(SalesOrders, "TABLE", SalesOrdersText),
                 Entry(ViewA, "VIEW", textA),
                 Entry(ViewB, "VIEW", textB),
                 Entry(ProcName, "PROCEDURE", SelectFrom(clauses)) >>,
              LAMBDA e : e.name \notin missing)

\* procedure_dependencies.json; the discovery pass lists stored procedures
\* only, a cache written by another tool may list the views as well
DependenciesCache(cat, formal, viewEntries) ==
    << [name |-> ProcName, dependencies |-> formal] >>
    \o (IF viewEntries
        THEN << [name |-> ViewA, dependencies |-> <<ViewDep(cat, ViewB)>>],
                [name |-> ViewB,
                 dependencies |-> <<ViewDep(cat, ViewA), TableDep(cat, Orders)>>] >>
        ELSE <<>>)

-----------------------------------------------------------------------------
(* The resolution of one routine                                           *)

\* the state before a top-level call, for caches and a database drawn from
\* the given sets
Worlds(cats, conns, oks, textsA, textsB, missings, viewEntriesSet) ==
    /\ catalog \in cats
    /\ connString \in conns
    /\ queryOk \in oks
    /\ \E formal \in SeqsUpTo(FormalChoices(catalog), MaxItems),
          clauses \in SeqsUpTo(RefChoices, MaxItems),
          textA \in textsA, textB \in textsB,
          missing \in missings,
          viewEntries \in viewEntriesSet :
            /\ Len(formal) + Len(clauses) <= MaxItems
            /\ procDeps = DependenciesCache(catalog, formal, viewEntries)
            /\ scripts = ScriptsCache(missing, textA, textB, clauses)
    /\ pc = "idle"
    /\ stack = <<>>
    /\ visited = {}
    /\ result = <<>>
    /\ entered = <<>>
    /\ openConns = 0
    /\ steps = 0
    /\ script = NoneVal
    /\ verdict = "none"

\* any caches, without CONNECTION_STRING in the environment
Init ==
    /\ Worlds({Catalog1}, {FALSE}, {TRUE}, ViewATexts, ViewBTexts,
              SUBSET {Orders, ViewA}, BOOLEAN)
    /\ OutsideInit

\* caches of a discovery pass over two views that reference each other,
\* any database
InitDb ==
    /\ Worlds(Catalogs, BOOLEAN, BOOLEAN, {SelectFrom(<<Clause(<<"FROM">>, ViewB)>>)},
              {SelectFrom(<<Clause(<<"FROM">>, ViewA)>>)}, SUBSET {Orders}, {FALSE})
    /\ OutsideInit

\* get_dependencies(procedure_name) called from outside: processed_objects
\* is None and becomes a new empty set (lines 9-10)
Call ==
    /\ steps' = steps + 1
    /\ pc = "idle"
    /\ pc' = "running"
    /\ visited = {}
    /\ Enter(ProcName, <<>>)
    /\ UNCHANGED <<outside, procDeps, scripts, catalog, connString, queryOk, result, script, verdict>>

\* line 13 testing only for a direct self-reference
ReturnsEmptySelfOnly(full_name) == stack # <<>> /\ full_name = Top.name

\* lines 13-14: a name already in processed_objects returns [] at once
ReturnsEmpty(full_name) == full_name \in visited

\* Attach losing the empty list returned for a name already visited
AttachDroppingEmpty(rest, rec, recurses, full_name) ==
    IF ~recurses \/ ReturnsEmpty(full_name)
    THEN /\ stack' = SetTop([rest EXCEPT !.dependencies = Append(@, rec)])
         /\ UNCHANGED <<visited, entered, openConns>>
    ELSE Enter(full_name, SetTop([rest EXCEPT !.pending = <<rec>>]))

\* Attach with the record put in front of the list
AttachInFront(rest, rec, recurses, full_name) ==
    IF ~recurses
    THEN /\ stack' = SetTop([rest EXCEPT !.dependencies = <<rec>> \o @])
         /\ UNCHANGED <<visited, entered, openConns>>
    ELSE IF ReturnsEmpty(full_name)
    THEN /\ stack' = SetTop([rest EXCEPT
                        !.dependencies = <<With(rec, "view_dependencies", <<>>)>> \o @])
         /\ UNCHANGED <<visited, entered, openConns>>
    ELSE Enter(full_name, SetTop([rest EXCEPT !.pending = <<rec>>]))

\* Attach with the visited check of line 13 made after the connection of
\* lines 36-40 is opened
AttachCheckingLate(rest, rec, recurses, full_name) ==
    IF ~recurses
    THEN /\ stack' = SetTop([rest EXCEPT !.dependencies = Append(@, rec)])
         /\ UNCHANGED <<visited, entered, openConns>>
    ELSE IF ReturnsEmpty(full_name)
    THEN /\ stack' = SetTop([rest EXCEPT
                        !.dependencies = Append(@, With(rec, "view_dependencies", <<>>))])
         /\ openConns' = Connect
         /\ UNCHANGED <<visited, entered>>
    ELSE Enter(full_name, SetTop([rest EXCEPT !.pending = <<rec>>]))

\* dependencies.append(dependency), after the recursion of lines 80 and 143:
\* a name already in processed_objects returns [] at line 14, any other
\* name starts a new level and the record waits for its result
Attach(rest, rec, recurses, full_name) ==
    IF ~recurses
    THEN /\ stack' = SetTop([rest EXCEPT !.dependencies = Append(@, rec)])
         /\ UNCHANGED <<visited, entered, openConns>>
    ELSE IF ReturnsEmpty(full_name)
    THEN /\ stack' = SetTop([rest EXCEPT
                        !.dependencies = Append(@, With(rec, "view_dependencies", <<>>))])
         /\ UNCHANGED <<visited, entered, openConns>>
    ELSE Enter(full_name, SetTop([rest EXCEPT !.pending = <<rec>>]))

\* one iteration of the loop of lines 45-83
FormalDependency ==
    /\ steps' = steps + 1
    /\ pc = "running"
    /\ Top.phase = "formal"
    /\ Top.formal # <<>>
    /\ LET dep == Head(Top.formal)
           rest == [Top EXCEPT !.formal = Tail(@)]
       IN Attach(rest, FormalRecord(dep), FormalRecurses(dep), dep.name)
    /\ UNCHANGED <<outside, procDeps, scripts, catalog, connString, queryOk, pc, result, script, verdict>>

\* lines 85-96: the textual references of the routine's own script
ScanScript ==
    /\ steps' = steps + 1
    /\ pc = "running"
    /\ Top.phase = "formal"
    /\ Top.formal = <<>>
    /\ stack' = SetTop([Top EXCEPT !.phase = "heuristic",
                                   !.refs = MainScriptRefs(Top.name)])
    /\ UNCHANGED <<outside, procDeps, scripts, catalog, connString, queryOk, pc, visited, result,
                   entered, openConns, script, verdict>>

\* one iteration of the loop of lines 97-146
ReferencedDependency ==
    /\ steps' = steps + 1
    /\ pc = "running"
    /\ Top.phase = "heuristic"
    /\ Top.refs # <<>>
    /\ LET clean_ref == Strip(Head(Top.refs))
           rest == [Top EXCEPT !.refs = Tail(@)]
       IN IF AlreadyListed(Top.dependencies, clean_ref)
          THEN /\ stack' = SetTop(rest)
               /\ UNCHANGED <<visited, entered, openConns>>
          ELSE Attach(rest, ReferencedRecord(clean_ref),
                      ReferencedRecurses(clean_ref), RefFullName(clean_ref))
    /\ UNCHANGED <<outside, procDeps, scripts, catalog, connString, queryOk, pc, result, script, verdict>>

\* lines 148-152: close the connection and return the list, to the caller's
\* lines 81 / 144 or out of the top-level call
Return ==
    /\ steps' = steps + 1
    /\ pc = "running"
    /\ Top.phase = "heuristic"
    /\ Top.refs = <<>>
    /\ openConns' = Disconnect
    /\ IF Len(stack) = 1
       THEN /\ result' = Top.dependencies
            /\ pc' = "done"
            /\ stack' = <<>>
       ELSE LET caller == stack[Len(stack) - 1]
                rec == With(caller.pending[1], "view_dependencies", Top.dependencies)
            IN /\ stack' = [SubSeq(stack, 1, Len(stack) - 1) EXCEPT ![Len(stack) - 1] =
                                [caller EXCEPT !.dependencies = Append(@, rec),
                                               !.pending = <<>>]]
               /\ UNCHANGED <<result, pc>>
    /\ UNCHANGED <<outside, procDeps, scripts, catalog, connString, queryOk, visited, entered, script, verdict>>

Next == Call \/ FormalDependency \/ ScanScript \/ ReferencedDependency \/ Return

Spec == Init /\ [][Next]_vars

SpecDb == InitDb /\ [][Next]_vars

-----------------------------------------------------------------------------
(* Properties of the resolver                                              *)

\* the records of a returned list and of every nested view_dependencies,
\* each record before the records nested in it: the order of construction
RECURSIVE AllRecords(_)
AllRecords(list) ==
    IF list = <<>> THEN <<>>
    ELSE <<Head(list)>>
         \o (IF "view_dependencies" \in DOMAIN Head(list)
             THEN AllRecords(Head(list).view_dependencies) ELSE <<>>)
         \o AllRecords(Tail(list))

RecordFullName(rec) == FullName(rec.schemaName, rec.name)

IsViewOf(rec, n) == rec.type = "VIEW" /\ RecordFullName(rec) = n

\* the number of formal dependencies of the resolved routine
NFormal == Len(FormalDependencies(ProcName))

\* the names a call can be made for: the routine and the cached objects
Callable == {ProcName} \cup {scripts[i].name : i \in 1..Len(scripts)}

RECURSIVE SumOver(_, _)
SumOver(S, f) ==
    IF S = {} THEN 0
    ELSE LET x == CHOOSE x \in S : TRUE IN f[x] + SumOver(S \ {x}, f)

\* the work of the top-level call when each name is resolved once: the call,
\* the scan of the script and the return, and one iteration for each formal
\* dependency and each textual reference
StepBound ==
    SumOver(Callable, [n \in Callable |->
        3 + Len(FormalDependencies(n)) + Len(MainScriptRefs(n))])

\* the next statement of the innermost level is a call that passes the
\* visited check
NextIsCall ==
    \/ /\ Top.phase = "formal"
       /\ Top.formal # <<>>
       /\ FormalRecurses(Head(Top.formal))
       /\ ~ReturnsEmpty(Head(Top.formal).name)
    \/ /\ Top.phase = "heuristic"
       /\ Top.refs # <<>>
       /\ ~AlreadyListed(Top.dependencies, Strip(Head(Top.refs)))
       /\ ReferencedRecurses(Strip(Head(Top.refs)))
       /\ ~ReturnsEmpty(RefFullName(Strip(Head(Top.refs))))

\* some action of Next is enabled
CanStep ==
    \/ pc = "idle" /\ visited = {} /\ CacheFiles \subseteq cacheFiles
    \/ pc = "running" /\ stack # <<>> /\ (NextIsCall => Len(stack) < MaxDepth)

\* C1: for any contents of the two caches, also with a cycle through views,
\* the top-level call of get_dependencies terminates and returns its list:
\* until it has returned it can always take a step, and it takes at most
\* StepBound steps
C1_Terminates ==
    /\ steps <= StepBound
    /\ pc = "done" \/ CanStep

\* a finished call over two views that reference each other
C1_Witness ==
    /\ pc = "done"
    /\ entered = <<ProcName, ViewA, ViewB>>
    /\ \E i \in 1..Len(AllRecords(result)) :
          /\ IsViewOf(AllRecords(result)[i], ViewB)
          /\ "view_dependencies" \in DOMAIN AllRecords(result)[i]
          /\ \E j \in 1..Len(AllRecords(result)[i].view_dependencies) :
                IsViewOf(AllRecords(result)[i].view_dependencies[j], ViewA)

\* C2: within one top-level call the resolution body runs at most once per
\* name, and every name whose body started is in the visited set
C2_ResolvedAtMostOnce ==
    /\ \A i, j \in 1..Len(entered) : i # j => entered[i] # entered[j]
    /\ \A i \in 1..Len(entered) : entered[i] \in visited
    /\ \A n \in visited : \E i \in 1..Len(entered) : entered[i] = n

\* a finished call whose result names the view vA twice
C2_Witness ==
    /\ pc = "done"
    /\ \E i, j \in 1..Len(AllRecords(result)) :
          /\ i < j
          /\ IsViewOf(AllRecords(result)[i], ViewA)
          /\ IsViewOf(AllRecords(result)[j], ViewA)
    /\ \E i \in 1..Len(entered) : entered[i] = ViewA

\* C3: once a view's name was entered, every later occurrence of that view
\* (a sibling's second reference, or a reference that closes a cycle) gets
\* view_dependencies = []
C3_RepeatedViewIsEmpty ==
    pc = "done" =>
        LET recs == AllRecords(result)
        IN \A i, j \in 1..Len(recs) :
              ( /\ i < j
                /\ recs[i].type = "VIEW"
                /\ recs[j].type = "VIEW"
                /\ RecordFullName(recs[i]) = RecordFullName(recs[j])
                /\ "view_dependencies" \in DOMAIN recs[i] )
              => /\ "view_dependencies" \in DOMAIN recs[j]
                 /\ recs[j].view_dependencies = <<>>

\* view A -> view B -> A: B's record for the repeated A has no dependencies,
\* while the first record of A has B's
C3_Witness ==
    /\ pc = "done"
    /\ Len(result) >= 1
    /\ IsViewOf(result[1], ViewA)
    /\ "view_dependencies" \in DOMAIN result[1]
    /\ Len(result[1].view_dependencies) = 1
    /\ IsViewOf(result[1].view_dependencies[1], ViewB)
    /\ Len(result[1].view_dependencies[1].view_dependencies) >= 1
    /\ IsViewOf(result[1].view_dependencies[1].view_dependencies[1], ViewA)
    /\ result[1].view_dependencies[1].view_dependencies[1].view_dependencies = <<>>

\* C4: the heuristic extractor adds no record whose trailing name
\* component, however the reference was delimited, is the name of a formal
\* dependency of the same routine
C4_NoHeuristicDuplicate ==
    pc = "done" =>
        \A j \in (NFormal + 1)..Len(result) : \A i \in 1..NFormal :
            Strip(Trailing(result[j].name)) # result[i].name

\* C5: no two records of a returned list have the same name
C5_NamesUnique ==
    pc = "done" =>
        \A i, j \in 1..Len(result) : i # j => result[i].name # result[j].name

\* the texts of a view that selects from the table dbo.Orders and from
\* nothing else
ViewOverOrders ==
    { SelectFrom(<<Clause(<<"FROM">>, Orders)>>),
      SelectFrom(<<Clause(<<"FROM">>, Bracketed(Orders))>>) }

\* C6: with the caches of a discovery pass, a routine that depends on the
\* view vA, itself a view over the table dbo.Orders, gets a record for vA
\* whose view_dependencies is exactly one TABLE record for dbo.Orders
C6_ViewOverTable ==
    ( /\ pc = "done"
      /\ Len(procDeps) = 1
      /\ NFormal >= 1
      /\ FormalDependencies(ProcName)[1].name = ViewA
      /\ InLookup(ViewA)
      /\ InLookup(Orders)
      /\ Lookup(ViewA).definition \in ViewOverOrders )
    => /\ "view_dependencies" \in DOMAIN result[1]
       /\ Len(result[1].view_dependencies) = 1
       /\ result[1].view_dependencies[1].type = "TABLE"
       /\ result[1].view_dependencies[1].name = <<"Orders">>
       /\ result[1].view_dependencies[1].schemaName = <<"dbo">>

\* the textual references of the resolved routine, delimiters stripped
CleanRefs ==
    LET refs == MainScriptRefs(ProcName)
    IN [k \in 1..Len(refs) |-> Strip(refs[k])]

AbsentFromFormal(clean_ref) ==
    \A i \in 1..NFormal : FormalDependencies(ProcName)[i].name # clean_ref

\* rec is the record of the reference clean_ref
RecordOf(rec, clean_ref) ==
    /\ rec.name = TablePart(clean_ref)
    /\ rec.schemaName = SchemaPart(clean_ref)

\* the type the claim gives the record of clean_ref
ClaimedType(clean_ref) ==
    IF InLookup(RefFullName(clean_ref))
    THEN Lookup(RefFullName(clean_ref)).type ELSE "REFERENCED"

\* no formal dependency has clean_ref as its name, qualified or not
NamesNoFormal(clean_ref) ==
    \A i \in 1..NFormal :
        /\ FormalDependencies(ProcName)[i].name # clean_ref
        /\ TablePart(FormalDependencies(ProcName)[i].name) # clean_ref

C10_ViewsCarryDependencies ==
    pc = "done" =>
        \A i \in 1..Len(AllRecords(result)) :
            AllRecords(result)[i].type = "VIEW"
                => "view_dependencies" \in DOMAIN AllRecords(result)[i]

\* the rows of sys.columns a TABLE record stands for
CatalogRows(rec) ==
    LET key == <<IF rec.schemaName = NoneVal THEN <<"dbo">> ELSE rec.schemaName, rec.name>>
    IN IF key \in DOMAIN catalog THEN catalog[key] ELSE <<>>

\* rec lists every identity column as IDENTITY and every computed column as
\* COMPUTED with its expression, and holds no other list of columns
ListsAutoPopulated(rec) ==
    /\ \A i \in 1..Len(CatalogRows(rec)) :
          LET c == CatalogRows(rec)[i]
              listed == rec.auto_populated_columns
          IN /\ c.is_identity =>
                  \E e \in 1..Len(listed) :
                      /\ listed[e].name = c.name
                      /\ listed[e].population_type = "IDENTITY"
             /\ c.is_computed =>
                  \E e \in 1..Len(listed) :
                      /\ listed[e].name = c.name
                      /\ listed[e].population_type = "COMPUTED"
                      /\ "definition" \in DOMAIN listed[e]
                      /\ listed[e].definition = c.definition
    /\ "columns" \notin DOMAIN rec

-----------------------------------------------------------------------------
(* check_enforced_dependencies on its own                                  *)

\* bound on the number of fragments of a script
MaxPieces == 3

Fragments ==
    { <<"ALTER", " ", "TABLE", " ", "t">>,
      <<"ADD", " ", "CONSTRAINT", " ", "fk">>,
      <<"FOREIGN", " ", "KEY">>,
      <<"foreign", "\n", "key">>,
      <<"FOREIGN", "KEY">>,
      <<"REFERENCES", " ", "[", "x", "]">>,
      <<"P", "REFERENCES">>,
      <<"int">> }

RECURSIVE Join(_, _)
Join(pieces, sep) ==
    IF pieces = <<>> THEN <<>>
    ELSE IF Len(pieces) = 1 THEN pieces[1]
    ELSE pieces[1] \o <<sep>> \o Join(Tail(pieces), sep)

EnforceScripts ==
    {NoneVal} \cup {Join(ps, sep) : ps \in SeqsUpTo(Fragments, MaxPieces), sep \in {" ", "\n"}}

InitEnforce ==
    /\ script \in EnforceScripts
    /\ verdict = "none"
    /\ OutsideInit
    /\ procDeps = <<>>
    /\ scripts = <<>>
    /\ catalog = Catalog1
    /\ connString = FALSE
    /\ queryOk = TRUE
    /\ pc = "enforce"
    /\ stack = <<>>
    /\ visited = {}
    /\ result = <<>>
    /\ entered = <<>>
    /\ openConns = 0
    /\ steps = 0

\* check_enforced_dependencies(script)
CheckEnforced ==
    /\ pc = "enforce"
    /\ verdict = "none"
    /\ verdict' = IF check_enforced_dependencies(script) THEN "True" ELSE "False"
    /\ UNCHANGED <<outside, procDeps, scripts, catalog, connString, queryOk, pc, stack, visited,
                   result, entered, openConns, steps, script>>

NextEnforce == CheckEnforced

SpecEnforce == InitEnforce /\ [][NextEnforce]_vars

\* the words and punctuation marks of a text, in upper case
RECURSIVE Tokens(_)
Tokens(s) ==
    IF s = <<>> THEN <<>>
    ELSE IF Head(s) \in WS THEN Tokens(Tail(s))
    ELSE IF ~IsWord(Head(s)) THEN <<<<Head(s)>>>> \o Tokens(Tail(s))
    ELSE LET end == RunEnd(s, 1, "\\W")
         IN <<[i \in 1..(end - 1) |-> Upper(s[i])]>> \o Tokens(SubSeq(s, end, Len(s)))

FollowedBy(toks, i, first, second) ==
    i + 1 <= Len(toks) /\ toks[i] = <<first>> /\ toks[i + 1] = <<second>>

\* ALTER TABLE ... ADD CONSTRAINT ... FOREIGN KEY
AltersInForeignKey(s) ==
    LET toks == Tokens(s)
    IN \E a, b, c \in 1..Len(toks) :
          /\ a + 1 < b
          /\ b + 1 < c
          /\ FollowedBy(toks, a, "ALTER", "TABLE")
          /\ FollowedBy(toks, b, "ADD", "CONSTRAINT")
          /\ FollowedBy(toks, c, "FOREIGN", "KEY")

\* neither the words FOREIGN KEY nor the word REFERENCES
NoForeignKeyText(s) ==
    \/ NoScript(s)
    \/ LET toks == Tokens(s)
       IN \A i \in 1..Len(toks) :
            /\ ~FollowedBy(toks, i, "FOREIGN", "KEY")
            /\ toks[i] # <<"REFERENCES">>

\* C9: check_enforced_dependencies is true for a script with an ALTER TABLE
\* ... ADD CONSTRAINT ... FOREIGN KEY statement and false for a script, or a
\* missing script, without the words FOREIGN KEY and REFERENCES
C9_EnforcedDetection ==
    verdict # "none" =>
        /\ (~NoScript(script) /\ AltersInForeignKey(script)) => verdict = "True"
        /\ NoForeignKeyText(script) => verdict = "False"

-----------------------------------------------------------------------------
(* Order, types and fields of the returned records                         *)

\* the strictly increasing maps from 1..h into 1..n
Increasing(h, n) ==
    {f \in [1..h -> 1..n] : \A a, b \in 1..h : a < b => f[a] < f[b]}

\* C11: the returned list is not re-ordered: the formal dependencies come
\* first, in the order of the procedure_dependencies cache, and the heuristic
\* records follow in the order in which their references occur in the text
C11_OrderPreserved ==
    pc = "done" =>
        /\ Len(result) >= NFormal
        /\ \A i \in 1..NFormal :
              /\ RecordOf(result[i], FormalDependencies(ProcName)[i].name)
              /\ result[i].type = TypeOf(FormalDependencies(ProcName)[i])
        /\ Len(result) - NFormal <= Len(CleanRefs)
        /\ \E f \in Increasing(Len(result) - NFormal, Len(CleanRefs)) :
              \A k \in 1..(Len(result) - NFormal) :
                  RecordOf(result[NFormal + k], CleanRefs[f[k]])

\* a formal table followed by a record of a textual reference, and two
\* textual references in the order of the text
C11_Witness ==
    /\ pc = "done"
    /\ Len(result) = 2
    /\ \/ /\ NFormal = 1
          /\ result[1].name = <<"Orders">>
          /\ result[2].name = TempStaging
       \/ /\ NFormal = 0
          /\ Len(CleanRefs) = 2
          /\ result[1].name = TempStaging
          /\ IsViewOf(result[2], ViewA)

\* the types of a DependencyRecord
DependencyTypes ==
    {"TABLE", "VIEW", "FUNCTION", "PROCEDURE", "TRIGGER", "REFERENCED", "UNKNOWN"}

FnItems == <<"dbo", ".", "fnItems">>
FnTax == <<"dbo", ".", "fnTax">>
ProcQ == <<"dbo", ".", "Q">>
TrOrders == <<"dbo", ".", "trOrders">>
SynOrders == <<"dbo", ".", "synOrders">>

FnItemsText == <<"CREATE", " ", "FUNCTION", " ">> \o FnItems \o <<"(", ")">>

\* entries of a dependency_list for each kind of referenced object, lines
\* 479-597: tables and views with their columns, functions with their
\* definition, procedures, triggers, and any other kind under its type_desc
KindChoices(cat) ==
    { TableDep(cat, Orders),
      ViewDep(cat, ViewA),
      [name |-> FnItems, type |-> "FUNCTION", definition |-> FnItemsText],
      [name |-> ProcQ, type |-> "PROCEDURE"],
      [name |-> TrOrders, type |-> "TRIGGER"],
      [name |-> SynOrders, type |-> "SYNONYM"] }

\* clauses of a text that selects from a function, a view, a temp table and
\* a synonym
KindRefs ==
    { Clause(<<"FROM">>, FnItems) \o <<"(", "1", ")">>,
      Clause(<<"JOIN">>, ViewA),
      Clause(<<"INTO">>, TempStaging),
      Clause(<<"UPDATE">>, SynOrders) }

KindViewTexts ==
    { SelectFrom(<<Clause(<<"FROM">>, Orders)>>),
      SelectFrom(<<Clause(<<"FROM">>, FnItems) \o <<"(", "1", ")">>>>) }

\* object_create_scripts.json with an object of every kind collected, in the
\* order of collect_object_create_scripts
KindScripts(textA, clauses) ==
    << Entry(Orders, "TABLE", OrdersText),
       Entry(ViewA, "VIEW", textA),
       Entry(FnTax, "SCALAR_FUNCTION", <<"CREATE", " ", "FUNCTION", " ">> \o FnTax \o <<"(", ")">>),
       Entry(FnItems, "TABLE_VALUED_FUNCTION", FnItemsText),
       Entry(ProcName, "PROCEDURE", SelectFrom(clauses)),
       Entry(ProcQ, "PROCEDURE", <<"SELECT", " ", "1">>),
       Entry(TrOrders, "TRIGGER", <<"CREATE", " ", "TRIGGER", " ">> \o TrOrders) >>

\* caches of a discovery pass over a database with objects of every kind
InitKinds ==
    /\ catalog = Catalog1
    /\ connString = FALSE
    /\ queryOk = TRUE
    /\ \E formal \in SeqsUpTo(KindChoices(catalog), MaxItems),
          clauses \in SeqsUpTo(KindRefs, MaxItems),
          textA \in KindViewTexts :
            /\ Len(formal) + Len(clauses) <= MaxItems
            /\ procDeps = << [name |-> ProcName, dependencies |-> formal] >>
            /\ scripts = KindScripts(textA, clauses)
    /\ pc = "idle"
    /\ stack = <<>>
    /\ visited = {}
    /\ result = <<>>
    /\ entered = <<>>
    /\ openConns = 0
    /\ steps = 0
    /\ script = NoneVal
    /\ verdict = "none"
    /\ OutsideInit

SpecKinds == InitKinds /\ [][Next]_vars

\* C12: every record of a result, at every nesting level, has one of the
\* seven types of a DependencyRecord
C12_TypesClosed ==
    pc = "done" =>
        \A i \in 1..Len(AllRecords(result)) :
            AllRecords(result)[i].type \in DependencyTypes

\* the population types of an auto-populated column
PopulationTypes == {"IDENTITY", "COMPUTED", "DEFAULT", "ROWVERSION"}

\* the entries for the catalog rows cols are classified: each has one of the
\* four population types, each names a flagged column, and every rowversion
\* or timestamp column has an entry of type ROWVERSION
Classified(listed, cols) ==
    /\ \A e \in 1..Len(listed) :
          /\ listed[e].population_type \in PopulationTypes
          /\ \E i \in 1..Len(cols) : cols[i].name = listed[e].name /\ IsFlagged(cols[i])
    /\ \A i \in 1..Len(cols) :
          cols[i].type_name \in {"timestamp", "rowversion"} =>
              \E e \in 1..Len(listed) :
                  /\ listed[e].name = cols[i].name
                  /\ listed[e].population_type = "ROWVERSION"

\* C13: the entries get_table_info returns for a table are classified: their
\* population type is IDENTITY, COMPUTED, DEFAULT or ROWVERSION and never
\* null, a rowversion or timestamp column is reported as ROWVERSION, and a
\* column without any flag is absent
C13_ColumnsClassified ==
    (pc = "done" /\ connString /\ queryOk) =>
        \A i \in 1..Len(AllRecords(result)) :
            ( /\ AllRecords(result)[i].type = "TABLE"
              /\ "create_script" \in DOMAIN AllRecords(result)[i] )
            => Classified(AllRecords(result)[i].auto_populated_columns,
                          CatalogRows(AllRecords(result)[i]))

-----------------------------------------------------------------------------
(* Entry points: missing cache files, the callers of the agents, and the   *)
(* stand-alone analysis                                                    *)

\* project root paths the agents pass
ProjectPaths ==
    { <<"/", "projects", "/", "shop">>,
      <<"/", "work", "/", "dbo", ".", "P", "/", "shop">> }

\* str in str
IsSubstring(a, b) ==
    \E i \in 1..(Len(b) - Len(a) + 1) : SubSeq(b, i, i + Len(a) - 1) = a

\* CallFails with the connection of lines 36-40 opened before the files are
\* read
CallFailsConnected ==
    /\ steps' = steps + 1
    /\ pc = "idle"
    /\ visited = {}
    /\ ~(CacheFiles \subseteq cacheFiles)
    /\ visited' = {ProcName}
    /\ pc' = "failed"
    /\ error' = "FileNotFoundError"
    /\ openConns' = Connect
    /\ UNCHANGED <<procDeps, scripts, catalog, connString, queryOk, stack, result, entered,
                   script, verdict, cacheFiles, secondArg, written, discovery, elsewhere>>

\* lines 8-24 of a top-level call made without a second argument while a
\* cache file is missing: the name is added to the new set, then open()
\* raises FileNotFoundError, which nothing catches
CallFails ==
    /\ steps' = steps + 1
    /\ pc = "idle"
    /\ visited = {}
    /\ ~(CacheFiles \subseteq cacheFiles)
    /\ visited' = {ProcName}
    /\ pc' = "failed"
    /\ error' = "FileNotFoundError"
    /\ UNCHANGED <<procDeps, scripts, catalog, connString, queryOk, stack, result, entered,
                   openConns, script, verdict, cacheFiles, secondArg, written, discovery, elsewhere>>

\* get_dependencies(procedure, project_path) and
\* get_dependencies(procedure, project_path, connection_string), the calls
\* of the agents: a third argument is a TypeError; the path is bound to
\* processed_objects, so line 13 tests whether the name occurs in the path
\* and line 16 calls add on a str
CallWithPath ==
    /\ steps' = steps + 1
    /\ pc = "idle"
    /\ visited = {}
    /\ \E project_path \in ProjectPaths, third \in BOOLEAN :
          /\ secondArg' = project_path
          /\ IF third
             THEN pc' = "failed" /\ error' = "TypeError"
             ELSE IF IsSubstring(ProcName, project_path)
             THEN pc' = "done" /\ error' = error
             ELSE pc' = "failed" /\ error' = "AttributeError"
    /\ UNCHANGED <<procDeps, scripts, catalog, connString, queryOk, stack, visited, result,
                   entered, openConns, script, verdict, cacheFiles, written, discovery, elsewhere>>

\* lines 268-296 of analyze_procedure after get_dependencies has returned:
\* the file is written in the body of the loop over the dependencies, and
\* open() raises when the directory of the routine does not exist
Persist ==
    /\ steps' = steps + 1
    /\ pc = "done"
    /\ secondArg = NoneVal
    /\ IF result = <<>>
       THEN pc' = "analysed" /\ UNCHANGED <<written, error>>
       ELSE IF ~written.dir
       THEN pc' = "failed" /\ error' = "FileNotFoundError" /\ UNCHANGED written
       ELSE /\ pc' = "analysed"
            /\ written' = TreeFile(TRUE, TRUE, result)
            /\ UNCHANGED error
    /\ UNCHANGED <<procDeps, scripts, catalog, connString, queryOk, stack, visited, result,
                   entered, openConns, script, verdict, cacheFiles, secondArg, discovery, elsewhere>>

\* a file read by json.load: its content, nothing when the file is missing
ReadCache(file, content) == IF file \in cacheFiles THEN content ELSE <<>>

\* caches over one table and two views that reference each other; a cache
\* file may be missing, CONNECTION_STRING may be set, and the directory of
\* the routine under output/analysis may be missing
InitEntry ==
    /\ catalog = Catalog1
    /\ connString \in BOOLEAN
    /\ queryOk = TRUE
    /\ cacheFiles \in SUBSET CacheFiles
    /\ \E formal \in SeqsUpTo(FormalChoices(catalog), MaxItems),
          clauses \in SeqsUpTo(RefChoices, MaxItems) :
            /\ Len(formal) + Len(clauses) <= MaxItems
            /\ procDeps = ReadCache("procedure_dependencies.json",
                                    DependenciesCache(catalog, formal, FALSE))
            /\ scripts = ReadCache("object_create_scripts.json",
                                   ScriptsCache({}, SelectFrom(<<Clause(<<"FROM">>, ViewB)>>),
                                                SelectFrom(<<Clause(<<"FROM">>, ViewA)>>),
                                                clauses))
    /\ pc = "idle"
    /\ stack = <<>>
    /\ visited = {}
    /\ result = <<>>
    /\ entered = <<>>
    /\ openConns = 0
    /\ steps = 0
    /\ script = NoneVal
    /\ verdict = "none"
    /\ secondArg = NoneVal
    /\ error = "none"
    /\ written \in {TreeFile(dir, FALSE, <<>>) : dir \in BOOLEAN}
    /\ DiscoveryIdle
    /\ ElsewhereIdle

NextEntry == Next \/ CallFails \/ CallWithPath \/ Persist

SpecEntry == InitEntry /\ [][NextEntry]_vars

\* C14: when a cache file is missing, a resolution call ends with the
\* unhandled error of the read: it runs no resolution body, returns no
\* record and opens no database connection
C14_MissingCacheIsFatal ==
    (secondArg = NoneVal /\ ~(CacheFiles \subseteq cacheFiles)) =>
        /\ pc \in {"idle", "failed"}
        /\ pc = "failed" => error = "FileNotFoundError"
        /\ result = <<>>
        /\ entered = <<>>
        /\ openConns = 0
        /\ ~written.exists

\* the call has failed for want of object_create_scripts.json although
\* CONNECTION_STRING is set
C14_Witness ==
    /\ pc = "failed"
    /\ error = "FileNotFoundError"
    /\ cacheFiles = {"procedure_dependencies.json"}
    /\ connString
    /\ secondArg = NoneVal
    /\ openConns = 0

\* C15: a dependency without a cached create script is not fatal: its
\* record is returned without create_script, with has_enforced_dependencies
\* false and auto_populated_columns empty, and the dependencies after it
\* are resolved as well
C15_MissingScriptSkipsEnrichment ==
    pc = "done" =>
        /\ \A i \in 1..Len(AllRecords(result)) :
              ~InLookup(RecordFullName(AllRecords(result)[i])) =>
                  /\ "create_script" \notin DOMAIN AllRecords(result)[i]
                  /\ AllRecords(result)[i].has_enforced_dependencies = FALSE
                  /\ AllRecords(result)[i].auto_populated_columns = <<>>
        /\ Len(result) >= NFormal
        /\ \A i \in 1..NFormal :
              RecordOf(result[i], FormalDependencies(ProcName)[i].name)

\* dbo.Orders has no cached script, the database is reachable, and the
\* dependency after it is resolved with its script
C15_Witness ==
    /\ pc = "done"
    /\ connString
    /\ queryOk
    /\ ~InLookup(Orders)
    /\ Len(result) = 2
    /\ result[1].type = "TABLE"
    /\ result[1].name = <<"Orders">>
    /\ "create_script" \notin DOMAIN result[1]
    /\ result[1].auto_populated_columns = <<>>
    /\ "create_script" \in DOMAIN result[2]

-----------------------------------------------------------------------------
(* The discovery pass: discover_dependencies and                           *)
(* collect_object_create_scripts                                           *)

\* bound on the number of objects whose definition query fails in one pass
MaxFaults == 2

\* the sections of collect_object_create_scripts, in its order
Sections == <<"TABLE", "VIEW", "FUNCTION", "PROCEDURE", "TRIGGER">>

\* an object of the catalog: its section, the type stored with its script,
\* its definition, and what the query for its definition meets: "ok", an
\* error raised by the statement ("raises"), or a lost connection ("lost")
DbObject(n, section, type, text, outcome) ==
    [name |-> n, section |-> section, type |-> type, text |-> text, outcome |-> outcome]

DbObjects(outcomes) ==
    << DbObject(Orders, "TABLE", "TABLE", OrdersText, outcomes[1]),
       DbObject(SalesOrders, "TABLE", "TABLE", SalesOrdersText, outcomes[2]),
       DbObject(ViewA, "VIEW", "VIEW", SelectFrom(<<Clause(<<"FROM">>, Orders)>>), outcomes[3]),
       DbObject(FnItems, "FUNCTION", "TABLE_VALUED_FUNCTION", FnItemsText, outcomes[4]),
       DbObject(ProcName, "PROCEDURE", "PROCEDURE",
                SelectFrom(<<Clause(<<"FROM">>, ViewA)>>), outcomes[5]),
       DbObject(TrOrders, "TRIGGER", "TRIGGER",
                <<"CREATE", " ", "TRIGGER", " ">> \o TrOrders, outcomes[6]) >>

\* at most MaxFaults definition queries fail
Outcomes ==
    {f \in [1..Len(DbObjects([i \in 1..Len(Sections) + 1 |-> "ok"])) -> {"ok", "raises", "lost"}] :
        Cardinality({i \in DOMAIN f : f[i] # "ok"}) <= MaxFaults}

\* lines 13-22: get_object_definition catches whatever the query raises
get_object_definition(o) == IF o.outcome = "ok" THEN o.text ELSE NoneVal

\* an exception that leaves the function
Raised == <<"<raised>">>

\* get_complete_table_definition letting the exception of the
\* reconstruction escape
get_complete_table_definition_uncaught(o, helper) ==
    IF o.outcome = "lost" THEN Raised
    ELSE IF helper THEN o.text
    ELSE IF o.outcome = "ok" THEN o.text ELSE Raised

\* lines 42-280: the DDL from sp_GetDDL when that helper exists and answers,
\* else the reconstructed DDL; an exception of either is caught, and None is
\* returned when the reconstruction raises
get_complete_table_definition(o, helper) ==
    IF o.outcome = "lost" THEN NoneVal
    ELSE IF helper THEN o.text
    ELSE IF o.outcome = "ok" THEN o.text ELSE NoneVal

\* ScanCatalog with procedure_dependencies.json written as soon as the scan
\* is over, before the scripts are collected
ScanCatalogWriting ==
    /\ pass.at = "scan"
    /\ IF database.scanFails
       THEN /\ pass' = Position("aborted", 0, <<>>)
            /\ UNCHANGED <<procedure_dependencies, procDeps>>
       ELSE /\ procedure_dependencies' = procedure_dependencies \o database.procedures
            /\ procDeps' = procedure_dependencies'
            /\ pass' = Position("collect", 0, <<>>)
    /\ UNCHANGED <<scripts, catalog, connString, queryOk, pc, stack, visited, result,
                   entered, openConns, steps, script, verdict, cacheFiles, secondArg, error,
                   written, elsewhere, database, object_create_scripts>>

\* lines 431-603 of discover_dependencies: the catalog scanner; a query that
\* fails raises out of the pass
ScanCatalog ==
    /\ pass.at = "scan"
    /\ IF database.scanFails
       THEN /\ pass' = Position("aborted", 0, <<>>)
            /\ UNCHANGED procedure_dependencies
       ELSE /\ procedure_dependencies' = procedure_dependencies \o database.procedures
            /\ pass' = Position("collect", 0, <<>>)
    /\ UNCHANGED <<procDeps, scripts, catalog, connString, queryOk, pc, stack, visited, result,
                   entered, openConns, steps, script, verdict, cacheFiles, secondArg, error,
                   written, elsewhere, database, object_create_scripts>>

\* the query that lists the objects of the next section (lines 286-298,
\* 311-323, 331-351, 364-376, 385-398); when it fails the exception leaves
\* collect_object_create_scripts and discover_dependencies
ListSection ==
    /\ pass.at = "collect"
    /\ pass.todo = <<>>
    /\ pass.section < Len(Sections)
    /\ IF database.listFails = pass.section + 1
       THEN pass' = Position("aborted", pass.section + 1, <<>>)
       ELSE pass' = Position("collect", pass.section + 1,
                             SelectSeq(database.objects,
                                       LAMBDA o : o.section = Sections[pass.section + 1]))
    /\ UNCHANGED <<procDeps, scripts, catalog, connString, queryOk, pc, stack, visited, result,
                   entered, openConns, steps, script, verdict, cacheFiles, secondArg, error,
                   written, elsewhere, database, procedure_dependencies, object_create_scripts>>

\* CollectObject when the exception of a table's definition is not caught
CollectObjectUncaught ==
    /\ pass.at = "collect"
    /\ pass.todo # <<>>
    /\ LET o == Head(pass.todo)
           definition == IF o.section = "TABLE"
                         THEN get_complete_table_definition_uncaught(o, database.helper)
                         ELSE get_object_definition(o)
       IN IF definition = Raised
          THEN /\ pass' = Position("aborted", pass.section, <<>>)
               /\ UNCHANGED object_create_scripts
          ELSE /\ object_create_scripts' =
                      IF definition # NoneVal
                      THEN Append(object_create_scripts, Entry(o.name, o.type, definition))
                      ELSE object_create_scripts
               /\ pass' = [pass EXCEPT !.todo = Tail(@)]
    /\ UNCHANGED <<procDeps, scripts, catalog, connString, queryOk, pc, stack, visited, result,
                   entered, openConns, steps, script, verdict, cacheFiles, secondArg, error,
                   written, elsewhere, database, procedure_dependencies>>

\* one iteration of a loop of collect_object_create_scripts (lines 299-308,
\* 324-329, 352-361, 377-382, 399-408): the object is appended when its
\* definition was obtained
CollectObject ==
    /\ pass.at = "collect"
    /\ pass.todo # <<>>
    /\ LET o == Head(pass.todo)
           definition == IF o.section = "TABLE"
                         THEN get_complete_table_definition(o, database.helper)
                         ELSE get_object_definition(o)
       IN object_create_scripts' =
              IF definition # NoneVal
              THEN Append(object_create_scripts, Entry(o.name, o.type, definition))
              ELSE object_create_scripts
    /\ pass' = [pass EXCEPT !.todo = Tail(@)]
    /\ UNCHANGED <<procDeps, scripts, catalog, connString, queryOk, pc, stack, visited, result,
                   entered, openConns, steps, script, verdict, cacheFiles, secondArg, error,
                   written, elsewhere, database, procedure_dependencies>>

\* lines 608-616: both lists are written to output/data
WriteCaches ==
    /\ pass.at = "collect"
    /\ pass.todo = <<>>
    /\ pass.section = Len(Sections)
    /\ procDeps' = procedure_dependencies
    /\ scripts' = object_create_scripts
    /\ cacheFiles' = CacheFiles
    /\ pass' = Position("completed", pass.section, <<>>)
    /\ UNCHANGED <<catalog, connString, queryOk, pc, stack, visited, result,
                   entered, openConns, steps, script, verdict, secondArg, error,
                   written, elsewhere, database, procedure_dependencies, object_create_scripts>>

\* a first discovery pass over a database with two tables, a view, a
\* function, a procedure and a trigger; any query of the pass may fail
InitDiscover ==
    /\ \E outcomes \in Outcomes, helper \in BOOLEAN, scanFails \in BOOLEAN,
          listFails \in 0..Len(Sections) :
            database = [objects |-> DbObjects(outcomes), helper |-> helper,
                        scanFails |-> scanFails, listFails |-> listFails,
                        procedures |-> DependenciesCache(Catalog1, <<TableDep(Catalog1, Orders)>>, FALSE)]
    /\ procedure_dependencies = <<>>
    /\ object_create_scripts = <<>>
    /\ pass = Position("scan", 0, <<>>)
    /\ procDeps = <<>>
    /\ scripts = <<>>
    /\ cacheFiles = {}
    /\ catalog = Catalog1
    /\ connString = TRUE
    /\ queryOk = TRUE
    /\ pc = "idle"
    /\ stack = <<>>
    /\ visited = {}
    /\ result = <<>>
    /\ entered = <<>>
    /\ openConns = 0
    /\ steps = 0
    /\ script = NoneVal
    /\ verdict = "none"
    /\ secondArg = NoneVal
    /\ error = "none"
    /\ written = TreeFile(TRUE, FALSE, <<>>)
    /\ ElsewhereIdle

NextDiscover == ScanCatalog \/ ListSection \/ CollectObject \/ WriteCaches

SpecDiscover == InitDiscover /\ [][NextDiscover]_vars

\* some query of the pass met a lost connection
ConnectionLost ==
    \/ database.scanFails
    \/ database.listFails # 0
    \/ \E i \in 1..Len(database.objects) : database.objects[i].outcome = "lost"

\* C16: a connectivity failure at any catalog query of the pass is fatal: a
\* pass that met one does not complete and writes no cache files
C16_ConnectivityFailureIsFatal ==
    ConnectionLost => (pass.at # "completed" /\ cacheFiles = {})

\* the cached entry of the object o
Cached(o) ==
    \E i \in 1..Len(scripts) :
        /\ scripts[i].name = o.name
        /\ scripts[i].type = o.type
        /\ scripts[i].definition = o.text

\* C17: when the reconstruction of a table's DDL raises, the failure is
\* caught for that table only: the table is absent from
\* object_create_scripts, every object whose definition is obtained is
\* collected, and the pass does not abort on it
C17_ReconstructionFailureSkipsTable ==
    /\ pass.at = "aborted" => (database.scanFails \/ database.listFails # 0)
    /\ pass.at = "completed" =>
          \A i \in 1..Len(database.objects) :
              /\ ( /\ database.objects[i].section = "TABLE"
                   /\ database.objects[i].outcome = "raises"
                   /\ ~database.helper )
                 => \A j \in 1..Len(scripts) : scripts[j].name # database.objects[i].name
              /\ database.objects[i].outcome = "ok" => Cached(database.objects[i])

\* the pass completed after the reconstruction of dbo.Orders raised: the
\* other five objects are cached
C17_Witness ==
    /\ pass.at = "completed"
    /\ ~database.helper
    /\ database.objects[1].outcome = "raises"
    /\ \A i \in 2..Len(database.objects) : database.objects[i].outcome = "ok"
    /\ Len(scripts) = Len(database.objects) - 1
    /\ \A j \in 1..Len(scripts) : scripts[j].name # Orders

\* C18: a call with a routine name and a project root path, as the agents
\* make it, resolves the routine: it does not fail, it runs the body for
\* the routine, and it returns the records of the routine's dependencies
C18_PathCallResolves ==
    secondArg # NoneVal =>
        /\ pc # "failed"
        /\ pc = "done" =>
              /\ entered # <<>>
              /\ Len(result) >= NFormal
              /\ \A i \in 1..NFormal :
                    RecordOf(result[i], FormalDependencies(ProcName)[i].name)

\* C19: analyze_procedure persists the array returned by the resolver for
\* every routine it analyses, also when the array is empty, and the
\* persisted content is the returned array
C19_TreePersisted ==
    pc = "analysed" =>
        /\ written.exists
        /\ written.content = result

\* the fields every record has, and the fields a record may have
RequiredFields ==
    {"name", "schemaName", "type", "has_enforced_dependencies", "auto_populated_columns"}

OptionalFields == {"create_script", "view_dependencies"}

\* C20: every record has exactly the five fields name, schemaName, type,
\* has_enforced_dependencies and auto_populated_columns, plus create_script
\* only when a script is cached for it and view_dependencies only when its
\* type is VIEW
C20_RecordFields ==
    pc = "done" =>
        \A i \in 1..Len(AllRecords(result)) :
            LET rec == AllRecords(result)[i]
            IN /\ RequiredFields \subseteq DOMAIN rec
               /\ DOMAIN rec \subseteq RequiredFields \cup OptionalFields
               /\ "create_script" \in DOMAIN rec => InLookup(RecordFullName(rec))
               /\ "view_dependencies" \in DOMAIN rec => rec.type = "VIEW"

\* a view with its script and its dependencies, whose cached entry has
\* columns, and a temp table with the five fields only
C20_Witness ==
    /\ pc = "done"
    /\ Len(result) = 2
    /\ NFormal = 1
    /\ "columns" \in DOMAIN FormalDependencies(ProcName)[1]
    /\ DOMAIN result[1] = RequiredFields \cup OptionalFields
    /\ result[2].name = TempStaging
    /\ DOMAIN result[2] = RequiredFields
-----------------------------------------------------------------------------
(* Successive top-level calls in one process                               *)

\* bound on the number of top-level calls made one after the other
MaxCalls == 2

\* CallAgain with one set shared by every call that omits the argument, as a
\* default of set() in the signature would make it: line 13 finds the name
\* of the routine and line 14 returns []
CallAgainSharedSet ==
    /\ steps' = steps + 1
    /\ pc = "done"
    /\ earlier.calls + 1 < MaxCalls
    /\ CacheFiles \subseteq cacheFiles
    /\ earlier' = IF earlier.calls = 0 THEN Earlier(1, result, entered)
                  ELSE [earlier EXCEPT !.calls = @ + 1]
    /\ result' = <<>>
    /\ entered' = <<>>
    /\ UNCHANGED <<procDeps, scripts, catalog, connString, queryOk, pc, stack, visited,
                   openConns, script, verdict, cacheFiles, secondArg, error, written,
                   discovery, passes, racing, runner>>

\* get_dependencies(procedure_name) called again after an earlier call has
\* returned: processed_objects is None, so lines 9-10 bind it to a new empty
\* set, and lines 16-43 run as in the first call
CallAgain ==
    /\ steps' = steps + 1
    /\ pc = "done"
    /\ earlier.calls + 1 < MaxCalls
    /\ CacheFiles \subseteq cacheFiles
    /\ earlier' = IF earlier.calls = 0 THEN Earlier(1, result, entered)
                  ELSE [earlier EXCEPT !.calls = @ + 1]
    /\ pc' = "running"
    /\ visited' = {ProcName}
    /\ result' = <<>>
    /\ entered' = <<ProcName>>
    /\ openConns' = Connect
    /\ stack' = <<Frame(ProcName)>>
    /\ UNCHANGED <<procDeps, scripts, catalog, connString, queryOk, script, verdict,
                   cacheFiles, secondArg, error, written, discovery, passes, racing, runner>>

NextAgain == Next \/ CallAgain

\* caches of a discovery pass over two views that reference each other, any
\* database, the routine resolved MaxCalls times
SpecAgain == InitDb /\ [][NextAgain]_vars

\* C21: the visited set and the records are new for every top-level call:
\* a later top-level call for the same routine against the same caches
\* returns a list equal to the list of the first call, and runs the body for
\* the same names in the same order, none of them taken as visited
C21_FreshPerCall ==
    (pc = "done" /\ earlier.calls >= 1) =>
        /\ result = earlier.result
        /\ entered = earlier.entered

\* the second call has returned the records of the routine and of the two
\* views, as the first did
C21_Witness ==
    /\ pc = "done"
    /\ earlier.calls = 1
    /\ Len(entered) = 3
    /\ result # <<>>
    /\ connString

\* C22: the connections of the levels of one resolution are opened and
\* closed one after the other: at most one connection is open at any time
C22_OneConnectionAtATime == openConns <= 1
-----------------------------------------------------------------------------
(* A resolution racing a discovery pass over the two cache files           *)

\* bound on the number of discovery passes run again
MaxPasses == 2

\* bound on the number of levels of one resolution that read the files
MaxLevels == 2

\* what neither the reads of a resolution nor the writes of a pass change
besideFiles ==
    <<procDeps, scripts, catalog, connString, queryOk, stack, visited, result, entered,
      openConns, steps, script, verdict, cacheFiles, secondArg, error, written, database,
      procedure_dependencies, object_create_scripts, earlier, runner>>

\* a discovery pass is running while a resolution is
Overlapping(position, at) == position = "running" /\ at \in {"collected", "writing"}

\* lines 431-606 of discover_dependencies run again: the catalog is scanned
\* and the scripts are collected in memory, no file is touched
StartPass ==
    /\ pass.at = "completed"
    /\ passes < MaxPasses
    /\ passes' = passes + 1
    /\ pass' = Position("collected", Len(Sections), <<>>)
    /\ overlap' = (overlap \/ Overlapping(pc, "collected"))
    /\ UNCHANGED <<besideFiles, pc, fileVersion, loaded>>

\* lines 608-612: procedure_dependencies.json is written
WriteProcedureDependencies ==
    /\ pass.at = "collected"
    /\ fileVersion' = [fileVersion EXCEPT !["procedure_dependencies.json"] = passes]
    /\ pass' = [pass EXCEPT !.at = "writing"]
    /\ overlap' = (overlap \/ Overlapping(pc, "writing"))
    /\ UNCHANGED <<besideFiles, pc, passes, loaded>>

\* a pass that ends without writing object_create_scripts.json
WriteObjectCreateScriptsSkipped ==
    /\ pass.at = "writing"
    /\ pass' = [pass EXCEPT !.at = "completed"]
    /\ UNCHANGED <<besideFiles, pc, passes, loaded, overlap, fileVersion>>

\* lines 614-616: object_create_scripts.json is written, the pass is over
WriteObjectCreateScripts ==
    /\ pass.at = "writing"
    /\ fileVersion' = [fileVersion EXCEPT !["object_create_scripts.json"] = passes]
    /\ pass' = [pass EXCEPT !.at = "completed"]
    /\ UNCHANGED <<besideFiles, pc, passes, loaded, overlap>>

\* a top-level call of get_dependencies starts
Resolve ==
    /\ pc \in {"idle", "done"}
    /\ pc' = "running"
    /\ loaded' = <<>>
    /\ overlap' = Overlapping("running", pass.at)
    /\ UNCHANGED <<besideFiles, pass, passes, fileVersion>>

\* the file the innermost level opens next: lines 19-21, then lines 23-24
NextFile ==
    IF Len(loaded) % 2 = 0 THEN "procedure_dependencies.json"
    ELSE "object_create_scripts.json"

\* one open() and json.load of a level that passed the visited check; every
\* level reads both files again
ReadFile ==
    /\ pc = "running"
    /\ Len(loaded) < 2 * MaxLevels
    /\ loaded' = Append(loaded, [file |-> NextFile, version |-> fileVersion[NextFile]])
    /\ UNCHANGED <<besideFiles, pc, pass, passes, fileVersion, overlap>>

\* the innermost level makes no further call: the levels return, none of
\* them reads a file again (lines 148-152)
ReturnAll ==
    /\ pc = "running"
    /\ loaded # <<>>
    /\ Len(loaded) % 2 = 0
    /\ pc' = "done"
    /\ UNCHANGED <<besideFiles, pass, passes, fileVersion, loaded, overlap>>

\* the files of a completed first pass, nothing running
InitRace ==
    /\ catalog = Catalog1
    /\ connString = FALSE
    /\ queryOk = TRUE
    /\ procDeps = DependenciesCache(Catalog1, <<ViewDep(Catalog1, ViewA)>>, FALSE)
    /\ scripts = ScriptsCache({}, SelectFrom(<<Clause(<<"FROM">>, ViewB)>>),
                              SelectFrom(<<Clause(<<"FROM">>, ViewA)>>), <<>>)
    /\ pc = "idle"
    /\ stack = <<>>
    /\ visited = {}
    /\ result = <<>>
    /\ entered = <<>>
    /\ openConns = 0
    /\ steps = 0
    /\ script = NoneVal
    /\ verdict = "none"
    /\ cacheFiles = CacheFiles
    /\ secondArg = NoneVal
    /\ error = "none"
    /\ written = TreeFile(TRUE, FALSE, <<>>)
    /\ database = <<>>
    /\ procedure_dependencies = procDeps
    /\ object_create_scripts = scripts
    /\ pass = Position("completed", Len(Sections), <<>>)
    /\ ElsewhereIdle

NextRace ==
    \/ StartPass
    \/ WriteProcedureDependencies
    \/ WriteObjectCreateScripts
    \/ Resolve
    \/ ReadFile
    \/ ReturnAll

SpecRace == InitRace /\ [][NextRace]_vars

\* the resolution has read contents written by different passes
MixedRead ==
    \E i, j \in 1..Len(loaded) : loaded[i].version # loaded[j].version

\* C23: nothing locks the two cache files.  A resolution reads contents
\* written by different passes only when a pass runs during it, and while
\* a resolution runs during which no pass runs, every level has read the
\* files as the pass completed last wrote them
C23_MixedOnlyWhenRacing ==
    /\ MixedRead => overlap
    /\ (~overlap /\ pc = "running") =>
          /\ pass.at = "completed"
          /\ \A i \in 1..Len(loaded) :
                /\ loaded[i].version = passes
                /\ loaded[i].version = fileVersion[loaded[i].file]

\* one level has read procedure_dependencies.json of the first pass and
\* object_create_scripts.json of the second
C23_Witness ==
    /\ pc = "done"
    /\ Len(loaded) = 2
    /\ loaded[1].file = "procedure_dependencies.json"
    /\ loaded[1].version = 0
    /\ loaded[2].file = "object_create_scripts.json"
    /\ loaded[2].version = 1
-----------------------------------------------------------------------------
(* discover_dependencies called again in the same process                  *)

\* a later call of discover_dependencies: lines 6 and 9 ran once, at import,
\* so the two module-level lists still hold what the earlier passes appended
DiscoverAgain ==
    /\ pass.at = "completed"
    /\ passes < MaxPasses
    /\ passes' = passes + 1
    /\ pass' = Position("scan", 0, <<>>)
    /\ UNCHANGED <<procDeps, scripts, catalog, connString, queryOk, pc, stack, visited, result,
                   entered, openConns, steps, script, verdict, cacheFiles, secondArg, error,
                   written, database, procedure_dependencies, object_create_scripts,
                   earlier, racing, runner>>

NextRediscover == NextDiscover \/ DiscoverAgain

SpecRediscover == InitDiscover /\ [][NextRediscover]_vars

\* the number of entries of a cache file with the given name
EntriesNamed(cache, n) == Cardinality({i \in 1..Len(cache) : cache[i].name = n})

\* C24: after a pass has completed, also a later pass of the same process,
\* procedure_dependencies.json holds exactly one entry for every routine
\* found in that pass, with its dependencies, and object_create_scripts.json
\* holds one entry for every collected object
C24_OneEntryPerObject ==
    pass.at = "completed" =>
        /\ procDeps = database.procedures
        /\ \A i \in 1..Len(scripts) : EntriesNamed(scripts, scripts[i].name) = 1
        /\ \A i \in 1..Len(database.objects) :
              database.objects[i].outcome = "ok" =>
                  EntriesNamed(scripts, database.objects[i].name) = 1
-----------------------------------------------------------------------------
(* The table script reconstructed by get_complete_table_definition         *)

\* CHAR(13) + CHAR(10)
CRLF == <<"\r", "\n">>

\* the catalog rows of dbo.Orders: sys.columns, table-level
\* sys.check_constraints, sys.indexes, sys.foreign_keys, sys.triggers, in
\* the order the catalog returns them, and the number of partitions of the
\* table and of each of its indexes
DbTable(columns, checks, indexes, foreign_keys, triggers, partitions) ==
    [name |-> Orders, columns |-> columns, checks |-> checks, indexes |-> indexes,
     foreign_keys |-> foreign_keys, triggers |-> triggers, partitions |-> partitions]

\* the texts the statements of lines 57-272 add to @Result, one field for
\* each group of statements, for a table whose columns have no length,
\* identity, computed, default, collation or column-level check part, whose
\* indexes have one ascending key column and lie on PRIMARY uncompressed,
\* and whose foreign keys are trusted and have one column and no action
TableSections(t) ==
    LET Q(n) == <<"[", n, "]">>
        Go == <<"GO">> \o CRLF
        Indent == <<" ", " ", " ", " ">>
        Times(text) == Concat([p \in 1..t.partitions |-> text])
        ByColumnId(rows) ==
            [k \in 1..Len(rows) |->
                rows[CHOOSE i \in 1..Len(rows) :
                        Cardinality({j \in 1..Len(rows) :
                                        rows[j].column_id < rows[i].column_id}) = k - 1]]
        Clustering(i) == IF i.type = 1 THEN "CLUSTERED" ELSE "NONCLUSTERED"
        KeyColumns(i) == Q(i.column) \o <<" ", "ASC">>
        ColumnLine(c) ==
            Indent \o Q(c.name) \o <<" ">> \o Q(c.type)
                \o (IF c.is_nullable THEN <<" ", "NULL">> ELSE <<" ", "NOT", " ", "NULL">>)
                \o <<",">> \o CRLF
        CheckLine(k) ==
            Indent \o <<"CONSTRAINT", " ">> \o Q(k.name) \o <<" ", "CHECK", " ">>
                \o k.definition \o <<",">> \o CRLF
        UniqueLine(i) ==
            Indent \o <<"CONSTRAINT", " ">> \o Q(i.name)
                \o <<" ", "UNIQUE", " ", Clustering(i), " ", "(">> \o KeyColumns(i)
                \o <<")", ",">> \o CRLF
        PrimaryLine(i) ==
            Indent \o <<"CONSTRAINT", " ">> \o Q(i.name)
                \o <<" ", "PRIMARY", " ", "KEY", " ", Clustering(i), " ", "(">>
                \o KeyColumns(i) \o <<")", ",">> \o CRLF
        IndexText(i) ==
            CRLF \o <<"CREATE", " ">> \o (IF i.is_unique THEN <<"UNIQUE", " ">> ELSE <<>>)
                \o <<"NONCLUSTERED", " ", "INDEX", " ">> \o Q(i.name) \o <<" ", "ON", " ">>
                \o Bracketed(t.name) \o <<" ", "(">> \o KeyColumns(i) \o <<")">>
                \o CRLF \o Go
        ForeignKeyText(f) ==
            CRLF \o <<"ALTER", " ", "TABLE", " ">> \o Bracketed(t.name)
                \o <<" ", "WITH", " ", "CHECK", " ", "ADD", " ", "CONSTRAINT", " ">>
                \o Q(f.name) \o <<" ", "FOREIGN", " ", "KEY", " ", "(">> \o Q(f.column)
                \o <<")", " ", "REFERENCES", " ">> \o Bracketed(f.referenced)
                \o <<" ", "(">> \o Q(f.referenced_column) \o <<")">> \o CRLF \o Go
        TriggerText(g) == CRLF \o g.definition \o CRLF \o Go
        columns == ByColumnId(t.columns)
        uniques == SelectSeq(t.indexes, LAMBDA i : i.is_unique_constraint)
        primary == SelectSeq(t.indexes, LAMBDA i : i.is_primary_key)
        plain == SelectSeq(t.indexes, LAMBDA i : /\ ~i.is_primary_key
                                                 /\ ~i.is_unique_constraint
                                                 /\ i.type = 2)
        enabled == SelectSeq(t.triggers, LAMBDA g : ~g.is_disabled)
        body == <<"CREATE", " ", "TABLE", " ">> \o Bracketed(t.name) \o <<" ", "(">> \o CRLF
                \o Concat([k \in 1..Len(columns) |-> ColumnLine(columns[k])])
                \o Concat([k \in 1..Len(t.checks) |-> CheckLine(t.checks[k])])
                \o Concat([k \in 1..Len(uniques) |-> UniqueLine(uniques[k])])
                \o Concat([k \in 1..Len(primary) |-> PrimaryLine(primary[k])])
    IN [header |-> <<"SET", " ", "ANSI_NULLS", " ", "ON">> \o CRLF \o Go
                   \o <<"SET", " ", "QUOTED_IDENTIFIER", " ", "ON">> \o CRLF \o Go,
        body |-> IF SubSeq(body, Len(body) - 2, Len(body)) = <<",">> \o CRLF
                 THEN SubSeq(body, 1, Len(body) - 3) \o CRLF
                 ELSE body,
        close |-> Times(<<")">> \o CRLF \o Go),
        indexes |-> Concat([k \in 1..Len(plain) |-> Times(IndexText(plain[k]))]),
        foreign_keys |->
            Concat([k \in 1..Len(t.foreign_keys) |-> ForeignKeyText(t.foreign_keys[k])]),
        triggers |-> Concat([k \in 1..Len(enabled) |-> TriggerText(enabled[k])]),
        null |-> \E k \in 1..Len(enabled) : enabled[k].definition = NoneVal]

\* table_def with the foreign keys added before the indexes
table_def_foreign_keys_first(t) ==
    LET s == TableSections(t)
    IN IF s.null THEN NoneVal
       ELSE s.header \o s.body \o s.close \o s.foreign_keys \o s.indexes \o s.triggers

\* lines 54-277: @Result after the statements have run in their order, and
\* None when it is NULL, which a NULL OBJECT_DEFINITION of an enabled
\* trigger makes it
table_def(t) ==
    LET s == TableSections(t)
    IN IF s.null THEN NoneVal
       ELSE s.header \o s.body \o s.close \o s.indexes \o s.foreign_keys \o s.triggers

ColumnRow(n, column_id, type, is_nullable) ==
    [name |-> n, column_id |-> column_id, type |-> type, is_nullable |-> is_nullable]

IndexRow(n, type, is_primary_key, is_unique_constraint, is_unique, column) ==
    [name |-> n, type |-> type, is_primary_key |-> is_primary_key,
     is_unique_constraint |-> is_unique_constraint, is_unique |-> is_unique,
     column |-> column]

TriggerRow(definition, is_disabled) ==
    [definition |-> definition, is_disabled |-> is_disabled]

\* CREATE TRIGGER <name> ON [dbo].[Orders] AFTER INSERT AS <statement>
TriggerDefinition(n, statement) ==
    <<"CREATE", " ", "TRIGGER", " ", n, " ", "ON", " ">> \o Bracketed(Orders)
        \o <<" ", "AFTER", " ", "INSERT", " ", "AS", " ">> \o statement

\* the tables dbo.Orders may be
DbTables ==
    LET OrderId == ColumnRow("OrderId", 1, "int", FALSE)
        CustomerId == ColumnRow("CustomerId", 3, "int", TRUE)
        CK == [name |-> "CK_Orders", definition |->
                  <<"(", "[", "OrderId", "]", "=", "[", "OrderId", "]", ")">>]
        PK == IndexRow("PK_Orders", 1, TRUE, FALSE, TRUE, "OrderId")
        UQ == IndexRow("UQ_Orders", 2, FALSE, TRUE, TRUE, "CustomerId")
        IX == IndexRow("IX_Orders", 2, FALSE, FALSE, FALSE, "CustomerId")
        CI == IndexRow("CI_Orders", 1, FALSE, FALSE, FALSE, "OrderId")
        FK == [name |-> "FK_Orders_Customers", column |-> "CustomerId",
               referenced |-> <<"dbo", ".", "Customers">>, referenced_column |-> "Id"]
        Audit == TriggerRow(TriggerDefinition("trAudit", <<"SELECT", " ", "1">>), FALSE)
        Warn == TriggerRow(TriggerDefinition("trWarn",
                    <<"PRINT", " ", "'", "REFERENCES", " ", "Customers", "'">>), FALSE)
        Old == TriggerRow(TriggerDefinition("trOld", <<"SELECT", " ", "2">>), TRUE)
        Encrypted == TriggerRow(NoneVal, FALSE)
    IN { DbTable(columns, checks, indexes, foreign_keys, triggers, partitions) :
            columns \in {<<OrderId>>, <<OrderId, CustomerId>>, <<CustomerId, OrderId>>},
            checks \in {<<>>, <<CK>>},
            indexes \in {<<>>, <<PK>>, <<IX>>, <<CI>>, <<UQ, IX>>, <<IX, PK>>, <<PK, UQ, IX>>},
            foreign_keys \in {<<>>, <<FK>>},
            triggers \in {<<>>, <<Audit>>, <<Old>>, <<Old, Audit>>, <<Warn>>, <<Encrypted>>},
            partitions \in {1, 2} }

\* get_complete_table_definition('dbo.Orders') about to be called where
\* sp_GetDDL does not exist
InitTable ==
    /\ database \in DbTables
    /\ procedure_dependencies = <<>>
    /\ object_create_scripts = <<>>
    /\ pass = Position("off", 0, <<>>)
    /\ script = NoneVal
    /\ verdict = "none"
    /\ pc = "table"
    /\ procDeps = <<>>
    /\ scripts = <<>>
    /\ catalog = Catalog1
    /\ connString = TRUE
    /\ queryOk = TRUE
    /\ stack = <<>>
    /\ visited = {}
    /\ result = <<>>
    /\ entered = <<>>
    /\ openConns = 0
    /\ steps = 0
    /\ cacheFiles = {}
    /\ secondArg = NoneVal
    /\ error = "none"
    /\ written = TreeFile(TRUE, FALSE, <<>>)
    /\ ElsewhereIdle

\* lines 54-277 of get_complete_table_definition
ReconstructTable ==
    /\ pc = "table"
    /\ pc' = "reconstructed"
    /\ script' = table_def(database)
    /\ UNCHANGED <<outside, procDeps, scripts, catalog, connString, queryOk, stack, visited,
                   result, entered, openConns, steps, verdict>>

NextTable == ReconstructTable

SpecTable == InitTable /\ [][NextTable]_vars

\* the lines of a text, without their line ends
RECURSIVE LinesOf(_)
LinesOf(s) ==
    IF ~Contains(s, "\n") THEN (IF s = <<>> THEN <<>> ELSE <<s>>)
    ELSE LET n == FirstIndex(s, "\n")
             line == SelectSeq(SubSeq(s, 1, n - 1), LAMBDA a : a # "\r")
         IN <<line>> \o LinesOf(SubSeq(s, n + 1, Len(s)))

\* the section a line of the script belongs to, by its first words
SectionOf(line) ==
    IF line = <<>> \/ line = <<"GO">> \/ line[1] = "SET" THEN "none"
    ELSE IF line[1] = ")" THEN "close"
    ELSE IF line[1] = "ALTER" THEN "foreign key"
    ELSE IF line[1] = "CREATE"
         THEN IF line[3] = "TABLE" THEN "none"
              ELSE IF line[3] = "TRIGGER" THEN "trigger"
              ELSE IF Contains(line, "INDEX") THEN "index"
              ELSE "other"
    ELSE IF Len(line) > 5 /\ SubSeq(line, 1, 4) = <<" ", " ", " ", " ">>
         THEN IF line[5] = "[" THEN "column"
              ELSE IF line[5] # "CONSTRAINT" THEN "other"
              ELSE IF Contains(line, "PRIMARY") THEN "primary key"
              ELSE IF Contains(line, "UNIQUE") THEN "unique"
              ELSE "check"
    ELSE "other"

\* the place of a section in the script
SectionRank(section) ==
    CASE section = "column" -> 1
      [] section = "check" -> 2
      [] section = "unique" -> 3
      [] section = "primary key" -> 4
      [] section = "close" -> 5
      [] section = "index" -> 6
      [] section = "foreign key" -> 7
      [] section = "trigger" -> 8

\* the lines of a script that belong to the section
SectionLines(s, section) == SelectSeq(LinesOf(s), LAMBDA line : SectionOf(line) = section)

\* C26: the reconstructed script has its sections in one order: the columns
\* in the order of column_id, then the table-level check constraints, the
\* unique constraints and the primary key inside the CREATE TABLE body, then
\* the non-clustered indexes that implement no constraint, then the foreign
\* keys, then the definitions of the enabled triggers; an index that backs a
\* constraint and a disabled trigger are not in the script
C26_SectionsInOrder ==
    (pc = "reconstructed" /\ script # NoneVal) =>
        LET lines == SelectSeq(LinesOf(script), LAMBDA line : SectionOf(line) # "none")
            t == database
        IN /\ \A i \in 1..Len(lines) : SectionOf(lines[i]) # "other"
           /\ \A i, j \in 1..Len(lines) :
                 i < j => SectionRank(SectionOf(lines[i])) <= SectionRank(SectionOf(lines[j]))
           /\ LET cols == SectionLines(script, "column")
              IN /\ Len(cols) = Len(t.columns)
                 /\ \A i, j \in 1..Len(cols) :
                       i < j => \E a, b \in 1..Len(t.columns) :
                                   /\ t.columns[a].name = cols[i][6]
                                   /\ t.columns[b].name = cols[j][6]
                                   /\ t.columns[a].column_id < t.columns[b].column_id
           /\ Len(SectionLines(script, "check")) = Len(t.checks)
           /\ Len(SectionLines(script, "unique"))
                 = Len(SelectSeq(t.indexes, LAMBDA i : i.is_unique_constraint))
           /\ Len(SectionLines(script, "primary key"))
                 = Len(SelectSeq(t.indexes, LAMBDA i : i.is_primary_key))
           /\ {line[FirstIndex(line, "INDEX") + 3] :
                    line \in {SectionLines(script, "index")[k] :
                                      k \in 1..Len(SectionLines(script, "index"))}}
                 = {t.indexes[k].name : k \in {k \in 1..Len(t.indexes) :
                                                  /\ ~t.indexes[k].is_primary_key
                                                  /\ ~t.indexes[k].is_unique_constraint
                                                  /\ t.indexes[k].type = 2}}
           /\ Len(SectionLines(script, "foreign key")) = Len(t.foreign_keys)
           /\ SectionLines(script, "trigger")
                 = LET enabled == SelectSeq(t.triggers, LAMBDA g : ~g.is_disabled)
                   IN [k \in 1..Len(enabled) |-> enabled[k].definition]

\* a script with two columns stored out of order, a primary key, a unique
\* constraint, an index, a foreign key, and an enabled trigger beside a
\* disabled one
C26_Witness ==
    /\ pc = "reconstructed"
    /\ script # NoneVal
    /\ Len(database.columns) = 2
    /\ database.columns[1].column_id > database.columns[2].column_id
    /\ Len(database.indexes) = 3
    /\ Len(database.foreign_keys) = 1
    /\ Len(database.triggers) = 2
    /\ Len(SectionLines(script, "column")) = 2
    /\ Len(SectionLines(script, "index")) = 1
    /\ Len(SectionLines(script, "trigger")) = 1
-----------------------------------------------------------------------------
(* has_enforced_dependencies over the scripts the collector produces       *)

\* the view dbo.vA with and without a string literal in its text
FlagViewTexts ==
    { SelectFrom(<<Clause(<<"FROM">>, Orders)>>),
      SelectFrom(<<Clause(<<"FROM">>, Orders)>>)
          \o <<" ", "WHERE", " ", "Note", " ", "=", " ",
               "'", "REFERENCES", " ", "Customers", "'">> }

\* the caches of a discovery pass over dbo.Orders, reconstructed from its
\* catalog rows, the view dbo.vA and the routine dbo.P that uses both
InitFlag ==
    /\ database \in {t \in DbTables : /\ Len(t.columns) = 1
                                      /\ t.checks = <<>>
                                      /\ Len(t.indexes) <= 1
                                      /\ t.partitions = 1
                                      /\ table_def(t) # NoneVal}
    /\ procedure_dependencies = <<>>
    /\ object_create_scripts = <<>>
    /\ pass = Position("off", 0, <<>>)
    /\ catalog = Catalog1
    /\ connString = FALSE
    /\ queryOk = TRUE
    /\ procDeps = DependenciesCache(Catalog1, <<TableDep(Catalog1, Orders),
                                                ViewDep(Catalog1, ViewA)>>, FALSE)
    /\ \E textA \in FlagViewTexts :
          scripts = << Entry(Orders, "TABLE", table_def(database)),
                       Entry(ViewA, "VIEW", textA),
                       Entry(ProcName, "PROCEDURE", SelectFrom(<<Clause(<<"FROM">>, ViewA)>>)) >>
    /\ pc = "idle"
    /\ stack = <<>>
    /\ visited = {}
    /\ result = <<>>
    /\ entered = <<>>
    /\ openConns = 0
    /\ steps = 0
    /\ script = NoneVal
    /\ verdict = "none"
    /\ cacheFiles = CacheFiles
    /\ secondArg = NoneVal
    /\ error = "none"
    /\ written = TreeFile(TRUE, FALSE, <<>>)
    /\ ElsewhereIdle

SpecFlag == InitFlag /\ [][Next]_vars

\* C25: for a record whose create script the collector produced,
\* has_enforced_dependencies is true exactly when the object is a table
\* that declares at least one foreign-key constraint
C25_FlagIffForeignKey ==
    pc = "done" =>
        \A i \in 1..Len(AllRecords(result)) :
            LET rec == AllRecords(result)[i]
            IN "create_script" \in DOMAIN rec =>
                  (rec.has_enforced_dependencies
                     <=> (rec.type = "TABLE" /\ database.foreign_keys # <<>>))
-----------------------------------------------------------------------------
(* A call for a name already visited                                       *)

\* the next statement of the innermost level calls get_dependencies for a
\* name that is in processed_objects
NextCallIsVisited ==
    /\ pc = "running"
    /\ stack # <<>>
    /\ \/ /\ Top.phase = "formal"
          /\ Top.formal # <<>>
          /\ FormalRecurses(Head(Top.formal))
          /\ ReturnsEmpty(Head(Top.formal).name)
       \/ /\ Top.phase = "heuristic"
          /\ Top.refs # <<>>
          /\ ~AlreadyListed(Top.dependencies, Strip(Head(Top.refs)))
          /\ ReferencedRecurses(Strip(Head(Top.refs)))
          /\ ReturnsEmpty(RefFullName(Strip(Head(Top.refs))))

\* C27: a call for a name already in the visited set returns [] at once and
\* does nothing else: the visited set is unchanged, no body starts, so
\* neither cache file is opened (lines 19-24 belong to the body), no
\* connection is opened, and the caller attaches [] to its record
C27_VisitedCallHasNoEffect ==
    [][NextCallIsVisited =>
          /\ visited' = visited
          /\ entered' = entered
          /\ openConns' = openConns
          /\ cacheFiles' = cacheFiles
          /\ Len(stack') = Len(stack)
          /\ LET deps == stack'[Len(stack')].dependencies
             IN /\ Len(deps) = Len(Top.dependencies) + 1
                /\ deps[Len(deps)].view_dependencies = <<>>]_vars

\* dbo.vB has just been given [] for its dependency dbo.vA, which is being
\* resolved two levels up with its connection open
C27_Witness ==
    /\ pc = "running"
    /\ connString
    /\ Len(stack) = 3
    /\ Top.name = ViewB
    /\ Top.dependencies # <<>>
    /\ LET rec == Top.dependencies[Len(Top.dependencies)]
       IN /\ IsViewOf(rec, ViewA)
          /\ "view_dependencies" \in DOMAIN rec
          /\ rec.view_dependencies = <<>>
    /\ ViewA \in visited
    /\ openConns = 3
    /\ entered = <<ProcName, ViewA, ViewB>>
-----------------------------------------------------------------------------
(* A discovery pass over cache files that exist already                    *)

\* the cache files an earlier run left in output/data
OldCaches ==
    [procedure_dependencies |-> DependenciesCache(Catalog1, <<>>, TRUE),
     object_create_scripts |->
         ScriptsCache({Orders}, SelectFrom(<<Clause(<<"FROM">>, ViewB)>>),
                      SelectFrom(<<Clause(<<"FROM">>, ViewA)>>), <<>>)]

\* a pass of a new process over the database of InitDiscover, the two cache
\* files of an earlier run in place
InitDiscoverOver ==
    /\ \E outcomes \in Outcomes, helper \in BOOLEAN, scanFails \in BOOLEAN,
          listFails \in 0..Len(Sections) :
            database = [objects |-> DbObjects(outcomes), helper |-> helper,
                        scanFails |-> scanFails, listFails |-> listFails,
                        procedures |-> DependenciesCache(Catalog1, <<TableDep(Catalog1, Orders)>>, FALSE)]
    /\ procedure_dependencies = <<>>
    /\ object_create_scripts = <<>>
    /\ pass = Position("scan", 0, <<>>)
    /\ procDeps = OldCaches.procedure_dependencies
    /\ scripts = OldCaches.object_create_scripts
    /\ cacheFiles = CacheFiles
    /\ catalog = Catalog1
    /\ connString = TRUE
    /\ queryOk = TRUE
    /\ pc = "idle"
    /\ stack = <<>>
    /\ visited = {}
    /\ result = <<>>
    /\ entered = <<>>
    /\ openConns = 0
    /\ steps = 0
    /\ script = NoneVal
    /\ verdict = "none"
    /\ secondArg = NoneVal
    /\ error = "none"
    /\ written = TreeFile(TRUE, FALSE, <<>>)
    /\ ElsewhereIdle

SpecDiscoverOver == InitDiscoverOver /\ [][NextDiscover]_vars

\* C28: the pass writes the two cache files only when the scan of the
\* routines and the collection of the scripts are over: until the pass has
\* completed, and for ever when it aborts, both files are as they were
\* before the pass
C28_AbortLeavesCaches ==
    pass.at # "completed" =>
        /\ procDeps = OldCaches.procedure_dependencies
        /\ scripts = OldCaches.object_create_scripts
        /\ cacheFiles = CacheFiles

\* the pass aborted at its last listing query, after the scan and after
\* scripts were collected, and the files are those of the earlier run
C28_Witness ==
    /\ pass.at = "aborted"
    /\ pass.section = Len(Sections)
    /\ procedure_dependencies # <<>>
    /\ Len(object_create_scripts) >= 4
    /\ procDeps = OldCaches.procedure_dependencies
    /\ scripts = OldCaches.object_create_scripts
-----------------------------------------------------------------------------
(* The connection of the test runner: get_db_connection of                 *)
(* src/app/shared/run_sql_tests.py                                         *)

\* max_retries of get_db_connection
max_retries == 3

\* bound on the number of iterations of the retry loop in one process
MaxAttempts == 7

\* what get_db_connection and the clean-up of run_sql_tests leave alone
besideConnection ==
    <<procDeps, scripts, catalog, connString, queryOk, stack, visited, result, entered,
      script, verdict, cacheFiles, secondArg, error, written, discovery, earlier, passes,
      racing, results_dir, all_results>>

\* a connection or cursor object made in the iteration after `made` others
Live(made) == [id |-> made + 1, state |-> "open"]

\* lines 19-24: get_db_connection is called, at lines 432, 731 or 804 of a
\* run, or by a later run of the same process
GetDbConnection ==
    /\ pc \in {"tests", "connected", "cleaned"}
    /\ pc' = "connecting"
    /\ retry_count' = 0
    /\ handed' = <<>>
    /\ UNCHANGED <<besideConnection, db_connection, db_cursor, steps, openConns>>

\* Attempt without the probe of line 34 when the module already holds a
\* connection and a cursor
AttemptTrusting ==
    /\ pc = "connecting"
    /\ steps < MaxAttempts
    /\ steps' = steps + 1
    /\ \E connects, cursors, probes \in BOOLEAN :
          LET needed == db_connection.state = "None" \/ db_cursor.state = "None"
              connection == IF needed /\ connects THEN Live(steps) ELSE db_connection
              cursor == IF needed /\ connects /\ cursors THEN Live(steps) ELSE db_cursor
              probed == /\ needed => (connects /\ cursors)
                        /\ needed => (/\ connection.state = "open"
                                      /\ cursor.state = "open"
                                      /\ probes)
          IN IF probed
             THEN /\ db_connection' = connection
                  /\ db_cursor' = cursor
                  /\ handed' = <<connection, cursor>>
                  /\ pc' = "connected"
                  /\ openConns' = openConns + (IF needed THEN 1 ELSE 0)
                  /\ UNCHANGED retry_count
             ELSE /\ retry_count' = retry_count + 1
                  /\ db_connection' = NoConnection
                  /\ db_cursor' = NoConnection
                  /\ openConns' = openConns + (IF needed /\ connects THEN 1 ELSE 0)
                                    - (IF connection.state = "open" /\ cursor.state # "closed"
                                       THEN 1 ELSE 0)
                  /\ pc' = IF retry_count + 1 < max_retries THEN "connecting" ELSE "raised"
                  /\ UNCHANGED handed
    /\ UNCHANGED besideConnection

\* one iteration of the loop of lines 26-58: connect when the module holds
\* no connection or no cursor, probe with SELECT 1 and return; on any
\* exception count the attempt, close what can be closed (closing a closed
\* cursor raises, which skips the close of the connection), reset both
\* globals to None, and raise after max_retries attempts
Attempt ==
    /\ pc = "connecting"
    /\ steps < MaxAttempts
    /\ steps' = steps + 1
    /\ \E connects, cursors, probes \in BOOLEAN :
          LET needed == db_connection.state = "None" \/ db_cursor.state = "None"
              connection == IF needed /\ connects THEN Live(steps) ELSE db_connection
              cursor == IF needed /\ connects /\ cursors THEN Live(steps) ELSE db_cursor
              probed == /\ needed => (connects /\ cursors)
                        /\ connection.state = "open"
                        /\ cursor.state = "open"
                        /\ probes
          IN IF probed
             THEN /\ db_connection' = connection
                  /\ db_cursor' = cursor
                  /\ handed' = <<connection, cursor>>
                  /\ pc' = "connected"
                  /\ openConns' = openConns + (IF needed THEN 1 ELSE 0)
                  /\ UNCHANGED retry_count
             ELSE /\ retry_count' = retry_count + 1
                  /\ db_connection' = NoConnection
                  /\ db_cursor' = NoConnection
                  /\ openConns' = openConns + (IF needed /\ connects THEN 1 ELSE 0)
                                    - (IF connection.state = "open" /\ cursor.state # "closed"
                                       THEN 1 ELSE 0)
                  /\ pc' = IF retry_count + 1 < max_retries THEN "connecting" ELSE "raised"
                  /\ UNCHANGED handed
    /\ UNCHANGED besideConnection

\* lines 816-820 of run_sql_tests: the cursor and the connection are closed
\* at the end of a run, and the globals keep the closed objects
CleanUp ==
    /\ pc = "connected"
    /\ pc' = "cleaned"
    /\ db_cursor' = [db_cursor EXCEPT !.state = "closed"]
    /\ db_connection' = [db_connection EXCEPT !.state = "closed"]
    /\ openConns' = openConns - 1
    /\ UNCHANGED <<besideConnection, retry_count, handed, steps>>

\* the module has just been imported (lines 15-16)
InitConnection ==
    /\ pc = "tests"
    /\ procDeps = <<>>
    /\ scripts = <<>>
    /\ catalog = Catalog1
    /\ connString = TRUE
    /\ queryOk = TRUE
    /\ stack = <<>>
    /\ visited = {}
    /\ result = <<>>
    /\ entered = <<>>
    /\ openConns = 0
    /\ steps = 0
    /\ script = NoneVal
    /\ verdict = "none"
    /\ OutsideInit

NextConnection == GetDbConnection \/ Attempt \/ CleanUp

SpecConnection == InitConnection /\ [][NextConnection]_vars

\* C29: get_db_connection makes at most max_retries attempts; it returns
\* the module's connection and cursor, both open, after a probe that
\* succeeded, or it raises after exactly max_retries failed attempts; after
\* a failed attempt both globals are None, so that a closed connection left
\* by an earlier run is never returned
C29_ConnectionRetry ==
    /\ retry_count <= max_retries
    /\ pc = "connecting" =>
          /\ retry_count < max_retries
          /\ retry_count > 0 => (db_connection = NoConnection /\ db_cursor = NoConnection)
    /\ pc = "connected" =>
          /\ retry_count < max_retries
          /\ handed = <<db_connection, db_cursor>>
          /\ db_connection.state = "open"
          /\ db_cursor.state = "open"
    /\ pc = "raised" =>
          /\ retry_count = max_retries
          /\ handed = <<>>
          /\ db_connection = NoConnection
          /\ db_cursor = NoConnection

\* a later run found the closed connection of the run before, failed once
\* on it, and returned a new connection at its second attempt
C29_Witness ==
    /\ pc = "connected"
    /\ retry_count = 1
    /\ steps = 3
    /\ handed[1] = Live(2)
    /\ handed[2] = Live(2)
    /\ openConns = 1
-----------------------------------------------------------------------------
(* The per-procedure summary: run_all_tests_for_procedure of               *)
(* src/app/shared/run_sql_tests.py                                         *)

\* bound on the number of batch upload result files in the results directory
MaxFiles == 2

\* bound on the number of entries of the tsqlt result files of the directory
MaxResults == 2

\* str.lower() on the values of "test_results" that occur
lower(status) ==
    CASE status = "Uploaded" -> "uploaded"
      [] status = "AI-Fixed" -> "ai-fixed"
      [] OTHER -> status

\* batch_<k>_upload_results.json; "<None>" is a null "test_results"
BatchFile(k, status) ==
    [name |-> <<"batch_", k, "_upload_results.json">>, data |-> [test_results |-> status]]

\* <stem>_tsqlt_results.json
TestFile(stem, entries) ==
    [name |-> <<stem, "_tsqlt_results.json">>, data |-> [tsqlt_results |-> entries]]

\* an item of "tsqlt_results" that is no JSON object: result.get raises
NotADict == [Name |-> "<not a dict>", Result |-> "<not a dict>"]

\* lines 618-620 and 647: the file name tests
IsBatchFile(file) ==
    /\ file.name[1] = "batch_"
    /\ file.name[Len(file.name)] = "_upload_results.json"

IsTestFile(file) == file.name[Len(file.name)] = "_tsqlt_results.json"

\* lines 617-637: the loop over the batch upload result files
RECURSIVE upload_summary(_, _)
upload_summary(files, summary) ==
    IF files = <<>> THEN summary
    ELSE LET file == Head(files)
             status == lower(file.data.test_results)
             counted == [summary EXCEPT !.total = @ + 1]
         IN upload_summary(Tail(files),
               IF ~IsBatchFile(file) THEN summary
               ELSE IF file.data.test_results = "<None>" THEN summary
               ELSE IF status = "uploaded" THEN [counted EXCEPT !.success = @ + 1]
               ELSE IF status = "ai-fixed" THEN [counted EXCEPT !.fixed = @ + 1]
               ELSE [counted EXCEPT !.failed = @ + 1])

\* lines 653-663: the loop over the results of one file, left at the first
\* item that raises
RECURSIVE file_results(_, _)
file_results(entries, tests) ==
    IF entries = <<>> \/ Head(entries) = NotADict THEN tests
    ELSE LET entry == Head(entries)
             test_name == entry.Name
             named == [tests EXCEPT !.unique_tests = @ \cup {test_name}]
         IN file_results(Tail(entries),
               IF test_name = "" THEN tests
               ELSE IF entry.Result = "Success"
                    THEN [named EXCEPT !.passed_tests = @ \cup {test_name}]
               ELSE IF entry.Result = "Failure"
                    THEN [named EXCEPT !.failed_tests = @ \cup {test_name}]
               ELSE [named EXCEPT !.errored_tests = @ \cup {test_name}])

\* lines 640-667: the four sets and the loop over the tsqlt result files
RECURSIVE test_sets(_, _)
test_sets(files, tests) ==
    IF files = <<>> THEN tests
    ELSE test_sets(Tail(files),
            IF IsTestFile(Head(files))
            THEN file_results(Head(files).data.tsqlt_results, tests)
            ELSE tests)

\* test_summary with every failed and every errored name counted
test_summary_overlapping(tests) ==
    [total |-> Cardinality(tests.unique_tests),
     passed |-> Cardinality(tests.passed_tests),
     failed |-> Cardinality(tests.failed_tests),
     errored |-> Cardinality(tests.errored_tests)]

\* lines 670-683: the deduplicated counts
test_summary(tests) ==
    [total |-> Cardinality(tests.unique_tests),
     passed |-> Cardinality(tests.passed_tests),
     failed |-> Cardinality(tests.failed_tests \ tests.passed_tests),
     errored |-> Cardinality((tests.errored_tests \ tests.passed_tests) \ tests.failed_tests)]

\* lines 603-608 and 686-687: the object written to all_tests_results.json
AllResults(files) ==
    [upload_summary |-> upload_summary(files, [total |-> 0, success |-> 0, fixed |-> 0, failed |-> 0]),
     test_summary |-> test_summary(test_sets(files,
                         [unique_tests |-> {}, passed_tests |-> {},
                          failed_tests |-> {}, errored_tests |-> {}]))]

\* run_all_tests_for_procedure, lines 599-687
RunAllTestsForProcedure ==
    /\ pc = "summary"
    /\ pc' = "summarised"
    /\ all_results' = AllResults(results_dir)
    /\ results_dir' = Append(results_dir,
                         [name |-> <<"all_tests", "_results.json">>,
                          data |-> AllResults(results_dir)])
    /\ UNCHANGED <<procDeps, scripts, catalog, connString, queryOk, stack, visited, result,
                   entered, script, verdict, cacheFiles, secondArg, error, written, discovery,
                   earlier, passes, racing, db_connection, db_cursor, retry_count, handed,
                   steps, openConns>>

\* the values of "test_results" in the batch upload result files
UploadStatuses == {"uploaded", "Uploaded", "ai-fixed", "failed", "<None>"}

\* the items of "tsqlt_results": a name, empty or not, with a result, or an
\* item that is no object
ResultEntries ==
    [Name : {"test one", "test two"}, Result : {"Success", "Failure", "Error"}]
        \cup {[Name |-> "", Result |-> "Success"], NotADict}

\* a results directory: batch upload result files, the results of the test
\* runs in two files, and the error file of an earlier run
InitSummary ==
    /\ pc = "summary"
    /\ procDeps = <<>>
    /\ scripts = <<>>
    /\ catalog = Catalog1
    /\ connString = TRUE
    /\ queryOk = TRUE
    /\ stack = <<>>
    /\ visited = {}
    /\ result = <<>>
    /\ entered = <<>>
    /\ openConns = 0
    /\ steps = 0
    /\ script = NoneVal
    /\ verdict = "none"
    /\ cacheFiles = CacheFiles
    /\ secondArg = NoneVal
    /\ error = "none"
    /\ written = TreeFile(TRUE, FALSE, <<>>)
    /\ DiscoveryIdle
    /\ earlier = Earlier(0, <<>>, <<>>)
    /\ passes = 0
    /\ fileVersion = [f \in {"procedure_dependencies.json", "object_create_scripts.json"} |-> 0]
    /\ loaded = <<>>
    /\ overlap = FALSE
    /\ db_connection = NoConnection
    /\ db_cursor = NoConnection
    /\ retry_count = 0
    /\ handed = <<>>
    /\ all_results = <<>>
    /\ \E statuses \in SeqsUpTo(UploadStatuses, MaxFiles),
          entries \in SeqsUpTo(ResultEntries, MaxResults) :
          \E cut \in 0..Len(entries) :
             results_dir =
                [k \in 1..Len(statuses) |-> BatchFile(k, statuses[k])]
                \o <<TestFile("first", SubSeq(entries, 1, cut)),
                     TestFile("second", SubSeq(entries, cut + 1, Len(entries))),
                     [name |-> <<"all_tests", "_error.json">>,
                      data |-> [test_results |-> "<None>", tsqlt_results |-> <<>>]]>>

NextSummary == RunAllTestsForProcedure

SpecSummary == InitSummary /\ [][NextSummary]_vars

\* the results of the items named n that the loops of
\* run_all_tests_for_procedure reach: those before the first item of their
\* file that is no object
OutcomesOf(n) ==
    {results_dir[f].data.tsqlt_results[i].Result :
        <<f, i>> \in {<<f, i>> \in (1..Len(results_dir)) \X (1..MaxResults + 1) :
                        /\ IsTestFile(results_dir[f])
                        /\ i <= Len(results_dir[f].data.tsqlt_results)
                        /\ results_dir[f].data.tsqlt_results[i].Name = n
                        /\ \A j \in 1..i : results_dir[f].data.tsqlt_results[j] # NotADict}}

\* the batch upload result files whose status is s after lower()
UploadsWith(S) ==
    {f \in 1..Len(results_dir) :
        /\ IsBatchFile(results_dir[f])
        /\ results_dir[f].data.test_results # "<None>"
        /\ lower(results_dir[f].data.test_results) \in S}

\* C30: in the summary written, every distinct test name counts in exactly
\* one of passed, failed and errored, success before failure before error,
\* so that test_summary.total = passed + failed + errored; and
\* upload_summary.total = success + fixed + failed
C30_SummaryTotals ==
    pc = "summarised" =>
       LET tests == all_results.test_summary
           uploads == all_results.upload_summary
           names == {n \in {"test one", "test two"} : OutcomesOf(n) # {}}
       IN /\ tests.total = tests.passed + tests.failed + tests.errored
          /\ tests.total = Cardinality(names)
          /\ tests.passed = Cardinality({n \in names : "Success" \in OutcomesOf(n)})
          /\ tests.failed = Cardinality({n \in names : /\ "Success" \notin OutcomesOf(n)
                                                      /\ "Failure" \in OutcomesOf(n)})
          /\ tests.errored = Cardinality({n \in names : OutcomesOf(n) = {"Error"}})
          /\ uploads.total = uploads.success + uploads.fixed + uploads.failed
          /\ uploads.success = Cardinality(UploadsWith({"uploaded"}))
          /\ uploads.fixed = Cardinality(UploadsWith({"ai-fixed"}))
          /\ uploads.failed = Cardinality(UploadsWith({"failed"}))
          /\ results_dir[Len(results_dir)].data = all_results

\* one test failed in one file and passed in the other, and one upload was
\* fixed while the other file holds a null status
C30_Witness ==
    /\ pc = "summarised"
    /\ OutcomesOf("test one") = {"Success", "Failure"}
    /\ all_results.test_summary = [total |-> 1, passed |-> 1, failed |-> 0, errored |-> 0]
    /\ all_results.upload_summary = [total |-> 1, success |-> 0, fixed |-> 1, failed |-> 0]
    /\ Len(results_dir) = 6

=============================================================================
